---- MODULE Spec2Model ----
(***************************************************************************)
(* A model of gilrs: the Windows.Gaming.Input backend event producer        *)
(* (gilrs-core/src/platform/windows_wgi/gamepad.rs) and the event           *)
(* normaliser with its cached state (src/gamepad.rs).                       *)
(*                                                                          *)
(* Floats in [0, 1] / [-1, 1] are carried as integers in hundredths.        *)
(***************************************************************************)
EXTENDS Integers, Sequences, FiniteSets, TLC

\* ---------------------------------------------------------------- bounds
\* events the producers may send into the channel in one run
MaxSend == 3
\* events sent in one run of the hysteresis scenario, the Connected included
MaxSendHyst == 5
\* events the producers may send in one run of the filtered scenario
MaxSendFilt == 3
\* the timestamps of the readings of the diff scenario are 1..MaxTime
MaxTime == 2
\* the clock value up to which controllers are plugged in and out in the
\* polling scenario
MaxSendPoll == 2
\* inputs the hardware takes in one run of the polling scenario
MaxInput == 2

\* events sent in one run of the device scenario
MaxSendDev == 3
\* the length of the force-feedback log up to which the caller sets listener
\* positions
MaxFfLog == 3
\* events sent in one run of the mapped scenario, the Connected included
MaxSendMapped == 3
\* events sent in one run of the counter scenario
MaxSendCtr == 2
\* the value the counter of the model wraps at, standing for the 62-bit
\* maximum 0x3FFF_FFFF_FFFF_FFFF of Gilrs::inc
CounterMax == 3

\* the hardware controllers the OS can present
Handles == {1, 2}

\* ------------------------------------------------------- native event codes
EvCode(k, i) == [kind |-> k, index |-> i]
BTN_SOUTH == EvCode("Button", 0)
BTN_EAST == EvCode("Button", 1)
BTN_RT2 == EvCode("Button", 18)
AXIS_LSTICKY == EvCode("Axis", 0)
AXIS_LSTICKX == EvCode("Axis", 1)
NoCode == EvCode("None", 0)

\* usize::max_value(), the id of a Gamepad no Connected event has claimed yet
NoId == -1

\* ------------------------------------------------------------------ mapping
Btn(b) == [t |-> "Btn", name |-> b]
Axis(a) == [t |-> "Axis", name |-> a]

\* Mapping::default(): no native code has a semantic label
DefaultMapping == << >>

\* The mapping the database holds for the UUID of controller 1: a button and
\* an axis mapped to semantic buttons, a button and an axis mapped to semantic
\* axes.  The UUIDs of the other controllers are not in the database.
SdlMapping == (BTN_SOUTH :> Btn("South")) @@ (BTN_EAST :> Axis("LeftZ"))
              @@ (AXIS_LSTICKY :> Btn("RightTrigger2"))
              @@ (AXIS_LSTICKX :> Axis("LeftStickX"))

\* mutant of MappingDbGet: the database has the entry for every UUID
MappingDbGetAny(h) == SdlMapping

\* self.mappings.get(uuid).and_then(parse).unwrap_or_default()
MappingDbGet(h) == IF h = 1 THEN SdlMapping ELSE DefaultMapping

\* Mapping::map: Option<AxisOrBtn>, None as t = "None"
MappingMap(m, nec) == IF nec \in DOMAIN m THEN m[nec] ELSE [t |-> "None", name |-> "None"]

\* Mapping::map_rev: the native code mapped to a semantic control, or NoCode
MappingMapRev(m, ab) ==
    IF \E c \in DOMAIN m : m[c] = ab
    THEN CHOOSE c \in DOMAIN m : m[c] = ab
    ELSE NoCode

\* Button::to_nec: the platform's native code of a semantic button
ButtonToNec(b) ==
    CASE b = "South" -> BTN_SOUTH
      [] b = "East" -> BTN_EAST
      [] b = "RightTrigger2" -> BTN_RT2
      [] OTHER -> NoCode

Buttons == {"South", "East", "RightTrigger2"}
Axes == {"LeftStickX", "LeftZ"}

\* ------------------------------------------------------------------- events
\* EventType of the normaliser, with id and time (struct Event)
Ev(id, time, type, name, value, code) ==
    [id |-> id, time |-> time, type |-> type, name |-> name, value |-> value, code |-> code]
\* Option::None
NoEvent == Ev(NoId, 0, "None", "None", 0, NoCode)

\* WgiEvent: the controller handle, the raw event and the time of the send
WgiEvent(h, type, val, code, time) ==
    [h |-> h, type |-> type, val |-> val, code |-> code, time |-> time]

\* --------------------------------------------------------------- AxisInfo
AxisInfoOf(min, max) == [min |-> min, max |-> max]
I16_MIN == -32768
I16_MAX == 32767

\* mutant of AxisInfo: None for a switch code too
AxisInfoAxesOnly(nec) ==
    CASE nec.kind = "Axis" -> [some |-> TRUE, info |-> AxisInfoOf(I16_MIN, I16_MAX)]
      [] OTHER -> [some |-> FALSE, info |-> AxisInfoOf(0, 0)]

\* Gamepad::axis_info of a controller that is no Windows "Gamepad":
\* None for a button code, Some otherwise
AxisInfo(nec) ==
    CASE nec.kind = "Button" -> [some |-> FALSE, info |-> AxisInfoOf(0, 0)]
      [] nec.kind = "Axis" -> [some |-> TRUE, info |-> AxisInfoOf(I16_MIN, I16_MAX)]
      [] nec.kind = "Switch" -> [some |-> TRUE, info |-> AxisInfoOf(-1, 1)]

\* AxisInfo::value_btn: the raw value rescaled into [0, 1], in hundredths
ValueBtn(info, val) == ((val - info.min) * 100) \div (info.max - info.min)

\* AxisInfo::value_axis: the raw value rescaled into [-1, 1], in hundredths
ValueAxis(info, val) == ((val - info.min) * 200) \div (info.max - info.min) - 100

\* the raw value of a non-gamepad axis whose value_btn is p hundredths
RawOfBtn(p) == I16_MIN + ((p * (I16_MAX - I16_MIN) + 99) \div 100)

\* -------------------------------------------------------------- thresholds
\* GilrsBuilder::new: axis_to_btn_pressed 0.75, axis_to_btn_released 0.65
AxisToBtnPressed == 75

\* mutant of AxisToBtnReleased: one threshold for both edges
AxisToBtnReleasedIsPressed == AxisToBtnPressed

AxisToBtnReleased == 65

\* ------------------------------------------------------------ cached state
\* GamepadState::new(): no button and no axis entry
EmptyState == [buttons |-> << >>, axes |-> << >>]

ButtonData(pressed, value, counter, time) ==
    [is_pressed |-> pressed, value |-> value, counter |-> counter, time |-> time]
AxisData(value, counter, time) == [value |-> value, counter |-> counter, time |-> time]

Put(f, k, v) == [x \in (DOMAIN f) \cup {k} |-> IF x = k THEN v ELSE f[x]]

\* GamepadState::is_pressed(code): false when the code has no entry
StateIsPressed(st, nec) == IF nec \in DOMAIN st.buttons THEN st.buttons[nec].is_pressed ELSE FALSE

\* GamepadState::value(code): 0.0 when the code has no entry
StateValue(st, nec) == IF nec \in DOMAIN st.axes THEN st.axes[nec].value ELSE 0

\* GamepadState::set_btn_pressed
SetBtnPressed(st, nec, pressed, counter, time) ==
    [st EXCEPT !.buttons =
        Put(st.buttons, nec,
            IF nec \in DOMAIN st.buttons
            THEN [st.buttons[nec] EXCEPT !.is_pressed = pressed, !.counter = counter, !.time = time]
            ELSE ButtonData(pressed, IF pressed THEN 100 ELSE 0, counter, time))]

\* GamepadState::set_btn_repeating
SetBtnRepeating(st, nec, counter, time) ==
    [st EXCEPT !.buttons =
        Put(st.buttons, nec,
            IF nec \in DOMAIN st.buttons
            THEN [st.buttons[nec] EXCEPT !.counter = counter, !.time = time]
            ELSE ButtonData(TRUE, 100, counter, time))]

\* GamepadState::set_btn_value
SetBtnValue(st, nec, value, counter, time) ==
    [st EXCEPT !.buttons =
        Put(st.buttons, nec,
            IF nec \in DOMAIN st.buttons
            THEN [st.buttons[nec] EXCEPT !.value = value, !.counter = counter, !.time = time]
            ELSE ButtonData(FALSE, value, counter, time))]

\* GamepadState::update_axis
UpdateAxis(st, nec, data) == [st EXCEPT !.axes = Put(st.axes, nec, data)]

\* ---------------------------------------------------------------- devices
\* One entry of the device table: the backend's Gamepad (pid, non_roamable_id,
\* is_connected) wrapped in the normaliser's Gamepad (state, status, mapping, id).
NewGamepad(pid, h, status) ==
    [pid |-> pid, non_roamable_id |-> h, is_connected |-> TRUE,
     state |-> EmptyState, status |-> status, mapping |-> DefaultMapping, id |-> NoId]

\* the gamepad every id outside the table resolves to
NotObservedGamepad == NewGamepad(0, 0, "NotObserved")

\* ------------------------------------------------------------ the builder
\* an f32 that is not a number; the other f32 values are hundredths
NaN == 1000

\* the comparisons of f32: every comparison with NaN is false
Gt(a, b) == a # NaN /\ b # NaN /\ a > b
Ge(a, b) == a # NaN /\ b # NaN /\ a >= b
Le(a, b) == a # NaN /\ b # NaN /\ a <= b

\* GilrsBuilder::new: the default thresholds
GilrsBuilderNew ==
    [axis_to_btn_pressed |-> AxisToBtnPressed, axis_to_btn_released |-> AxisToBtnReleased,
     state |-> "builder"]

\* GilrsBuilder::build: the Gilrs takes the thresholds of the builder
Build(b) == [b EXCEPT !.state = "built"]

\* Gilrs::new(): GilrsBuilder::new()...build()
BuiltGilrs == Build(GilrsBuilderNew)

\* mutant of AxisToBtnAccepted: equal thresholds pass the first assertion
AxisToBtnAcceptedEqual(pressed, released) ==
    /\ Ge(pressed, released)
    /\ Ge(pressed, 0) /\ Le(pressed, 100)
    /\ Ge(released, 0) /\ Le(released, 100)

\* the three assertions of GilrsBuilder::set_axis_to_btn
AxisToBtnAccepted(pressed, released) ==
    /\ Gt(pressed, released)
    /\ Ge(pressed, 0) /\ Le(pressed, 100)
    /\ Ge(released, 0) /\ Le(released, 100)

\* no call yet
NoCall == [op |-> "none", args |-> << >>]

\* ----------------------------------------------------------------- state
VARIABLES
    rx,           \* the mpsc channel from the producers to Gilrs::next_event
    clock,        \* the number of events sent so far; utils::time_now() of a send
    osPresent,    \* the controllers the OS currently presents
    controllers,  \* the polling thread's enumeration of this tick
    poll,         \* the polling thread's pair of readings and what it did with it
    hw,           \* what the OS reports of each controller, and its input clock
    loop,         \* the polling loop: its readings, its enumeration, its position
    gamepads,     \* the device table (backend Gilrs::gamepads and their wrappers)
    events,       \* Gilrs::events, the queue of companion events
    counter,      \* Gilrs::counter
    ff,           \* the messages sent to the force-feedback server
    panicked,     \* a panic has unwound the consumer
    ret,          \* what the last call of next_event returned
    prev,         \* what the call before it returned
    pc,           \* "idle", or "loop" inside the filtering loop of next_event
    pending,      \* the event last returned has not been committed by update
    disciplined,  \* the caller has committed every returned event, and only those
    hyst,         \* per raw axis event normalised: <<rescaled value, event type>>
    connectedSeen, \* the ids a Connected raw event has been normalised for
    builder,      \* the GilrsBuilder, and the thresholds of the Gilrs it builds
    call          \* the call the caller made last, with its arguments

vars == <<rx, clock, osPresent, controllers, poll, hw, loop, gamepads, events, counter, ff,
          panicked, ret, prev, pc, pending, disciplined, hyst, connectedSeen,
          builder, call>>

ghosts == <<pending, disciplined, hyst, connectedSeen>>

setup == <<builder, call>>

\* ------------------------------------------------------ backend next_event
\* mutant of Position: the lookup never matches a known gamepad
PositionNoMatch(gs, h) == 0

\* self.gamepads.iter().position(..): the 1-based index of the first gamepad
\* whose non_roamable_id is that of the event's controller, 0 for None
Position(gs, h) ==
    IF \E i \in 1..Len(gs) : gs[i].non_roamable_id = h
    THEN CHOOSE i \in 1..Len(gs) :
            /\ gs[i].non_roamable_id = h
            /\ \A j \in 1..(i - 1) : gs[j].non_roamable_id # h
    ELSE 0

\* the status the wrapper of a gamepad gets that the backend creates mid-session
AppendedStatus == "NotObserved"

\* Gilrs::next_event of the backend on the received WgiEvent w: the table after
\* the call and the Event returned.  Ids count from 0, sequences from 1.
PlatformNextEvent(gs, w) ==
    LET pos == Position(gs, w.h)
        table == IF pos = 0
                 THEN Append(gs, NewGamepad(Len(gs), w.h, AppendedStatus))
                 ELSE gs
        idx == IF pos = 0 THEN Len(gs) + 1 ELSE pos
        marked == CASE w.type = "Connected" -> [table EXCEPT ![idx].is_connected = TRUE]
                    [] w.type = "Disconnected" -> [table EXCEPT ![idx].is_connected = FALSE]
                    [] OTHER -> table
    IN  [gamepads |-> marked,
         event |-> [id |-> idx - 1, type |-> w.type, val |-> w.val, code |-> w.code,
                    time |-> w.time]]

\* Gilrs::gamepad / gamepad_mut of the normaliser: some gamepad for every id
GamepadAt(gs, id) == IF id + 1 \in 1..Len(gs) THEN gs[id + 1] ELSE NotObservedGamepad

\* --------------------------------------------------------- the normaliser
Norm(event, queued, gamepad, sent, panic) ==
    [event |-> event, queued |-> queued, gamepad |-> gamepad, sent |-> sent, panic |-> panic]

\* mutant of NormaliseButton: the edge is written to the cache on retrieval
NormaliseButtonCommits(gp, raw, edge, value) ==
    LET ab == MappingMap(gp.mapping, raw.code)
        name == IF ab.t = "Btn" THEN ab.name ELSE "Unknown"
    IN  Norm(Ev(raw.id, raw.time, edge, name, 0, raw.code),
             <<Ev(raw.id, raw.time, "ButtonChanged", name, value, raw.code)>>,
             [gp EXCEPT !.state = SetBtnPressed(gp.state, raw.code, value = 100, 0, raw.time)],
             << >>, FALSE)

\* mutant of NormaliseButton: the companion ButtonChanged is not queued
NormaliseButtonNoCompanion(gp, raw, edge, value) ==
    LET ab == MappingMap(gp.mapping, raw.code)
    IN  IF ab.t = "Axis"
        THEN Norm(Ev(raw.id, raw.time, "AxisChanged", ab.name, value, raw.code),
                  << >>, gp, << >>, FALSE)
        ELSE Norm(Ev(raw.id, raw.time, edge, IF ab.t = "Btn" THEN ab.name ELSE "Unknown",
                     0, raw.code),
                  << >>, gp, << >>, FALSE)

\* RawEventType::ButtonPressed(nec) / ButtonReleased(nec), value 1.0 / 0.0
NormaliseButton(gp, raw, edge, value) ==
    LET ab == MappingMap(gp.mapping, raw.code)
    IN  CASE ab.t = "Btn" ->
               Norm(Ev(raw.id, raw.time, edge, ab.name, 0, raw.code),
                    <<Ev(raw.id, raw.time, "ButtonChanged", ab.name, value, raw.code)>>,
                    gp, << >>, FALSE)
          [] ab.t = "Axis" ->
               Norm(Ev(raw.id, raw.time, "AxisChanged", ab.name, value, raw.code),
                    << >>, gp, << >>, FALSE)
          [] OTHER ->
               Norm(Ev(raw.id, raw.time, edge, "Unknown", 0, raw.code),
                    <<Ev(raw.id, raw.time, "ButtonChanged", "Unknown", value, raw.code)>>,
                    gp, << >>, FALSE)

\* mutant of NormaliseAxis: a semantic axis gets the value rescaled as for a
\* button
NormaliseAxisButtonScale(gp, raw) ==
    LET ai == AxisInfo(raw.code)
        ab == MappingMap(gp.mapping, raw.code)
        vb == ValueBtn(ai.info, raw.val)
        changed == Ev(raw.id, raw.time, "ButtonChanged", ab.name, vb, raw.code)
    IN  IF ~ai.some
        THEN Norm(NoEvent, << >>, gp, << >>, TRUE)
        ELSE CASE ab.t = "Btn" ->
                    IF vb >= AxisToBtnPressed /\ ~StateIsPressed(gp.state, raw.code)
                    THEN Norm(Ev(raw.id, raw.time, "ButtonPressed", ab.name, 0, raw.code),
                              <<changed>>, gp, << >>, FALSE)
                    ELSE IF vb <= AxisToBtnReleased /\ StateIsPressed(gp.state, raw.code)
                    THEN Norm(Ev(raw.id, raw.time, "ButtonReleased", ab.name, 0, raw.code),
                              <<changed>>, gp, << >>, FALSE)
                    ELSE Norm(changed, << >>, gp, << >>, FALSE)
               [] ab.t = "Axis" ->
                    Norm(Ev(raw.id, raw.time, "AxisChanged", ab.name,
                            vb, raw.code),
                         << >>, gp, << >>, FALSE)
               [] OTHER ->
                    Norm(Ev(raw.id, raw.time, "AxisChanged", "Unknown",
                            ValueAxis(ai.info, raw.val), raw.code),
                         << >>, gp, << >>, FALSE)

\* mutant of NormaliseAxis: the press does not look at the cached state
NormaliseAxisNoHysteresis(gp, raw) ==
    LET ai == AxisInfo(raw.code)
        ab == MappingMap(gp.mapping, raw.code)
        vb == ValueBtn(ai.info, raw.val)
        changed == Ev(raw.id, raw.time, "ButtonChanged", ab.name, vb, raw.code)
    IN  IF ~ai.some
        THEN Norm(NoEvent, << >>, gp, << >>, TRUE)
        ELSE CASE ab.t = "Btn" ->
                    IF vb >= AxisToBtnPressed
                    THEN Norm(Ev(raw.id, raw.time, "ButtonPressed", ab.name, 0, raw.code),
                              <<changed>>, gp, << >>, FALSE)
                    ELSE IF vb <= AxisToBtnReleased /\ StateIsPressed(gp.state, raw.code)
                    THEN Norm(Ev(raw.id, raw.time, "ButtonReleased", ab.name, 0, raw.code),
                              <<changed>>, gp, << >>, FALSE)
                    ELSE Norm(changed, << >>, gp, << >>, FALSE)
               [] ab.t = "Axis" ->
                    Norm(Ev(raw.id, raw.time, "AxisChanged", ab.name,
                            ValueAxis(ai.info, raw.val), raw.code),
                         << >>, gp, << >>, FALSE)
               [] OTHER ->
                    Norm(Ev(raw.id, raw.time, "AxisChanged", "Unknown",
                            ValueAxis(ai.info, raw.val), raw.code),
                         << >>, gp, << >>, FALSE)

\* mutant of NormaliseAxis: the release does not look at the cached state
NormaliseAxisReleaseUnchecked(gp, raw) ==
    LET ai == AxisInfo(raw.code)
        ab == MappingMap(gp.mapping, raw.code)
        vb == ValueBtn(ai.info, raw.val)
        changed == Ev(raw.id, raw.time, "ButtonChanged", ab.name, vb, raw.code)
    IN  IF ~ai.some
        THEN Norm(NoEvent, << >>, gp, << >>, TRUE)
        ELSE CASE ab.t = "Btn" ->
                    IF vb >= AxisToBtnPressed /\ ~StateIsPressed(gp.state, raw.code)
                    THEN Norm(Ev(raw.id, raw.time, "ButtonPressed", ab.name, 0, raw.code),
                              <<changed>>, gp, << >>, FALSE)
                    ELSE IF vb <= AxisToBtnReleased
                    THEN Norm(Ev(raw.id, raw.time, "ButtonReleased", ab.name, 0, raw.code),
                              <<changed>>, gp, << >>, FALSE)
                    ELSE Norm(changed, << >>, gp, << >>, FALSE)
               [] ab.t = "Axis" ->
                    Norm(Ev(raw.id, raw.time, "AxisChanged", ab.name,
                            ValueAxis(ai.info, raw.val), raw.code),
                         << >>, gp, << >>, FALSE)
               [] OTHER ->
                    Norm(Ev(raw.id, raw.time, "AxisChanged", "Unknown",
                            ValueAxis(ai.info, raw.val), raw.code),
                         << >>, gp, << >>, FALSE)

\* RawEventType::AxisValueChanged(val, nec)
NormaliseAxis(gp, raw) ==
    LET ai == AxisInfo(raw.code)
        ab == MappingMap(gp.mapping, raw.code)
        vb == ValueBtn(ai.info, raw.val)
        changed == Ev(raw.id, raw.time, "ButtonChanged", ab.name, vb, raw.code)
    IN  IF ~ai.some
        THEN Norm(NoEvent, << >>, gp, << >>, TRUE)
        ELSE CASE ab.t = "Btn" ->
                    IF vb >= AxisToBtnPressed /\ ~StateIsPressed(gp.state, raw.code)
                    THEN Norm(Ev(raw.id, raw.time, "ButtonPressed", ab.name, 0, raw.code),
                              <<changed>>, gp, << >>, FALSE)
                    ELSE IF vb <= AxisToBtnReleased /\ StateIsPressed(gp.state, raw.code)
                    THEN Norm(Ev(raw.id, raw.time, "ButtonReleased", ab.name, 0, raw.code),
                              <<changed>>, gp, << >>, FALSE)
                    ELSE Norm(changed, << >>, gp, << >>, FALSE)
               [] ab.t = "Axis" ->
                    Norm(Ev(raw.id, raw.time, "AxisChanged", ab.name,
                            ValueAxis(ai.info, raw.val), raw.code),
                         << >>, gp, << >>, FALSE)
               [] OTHER ->
                    Norm(Ev(raw.id, raw.time, "AxisChanged", "Unknown",
                            ValueAxis(ai.info, raw.val), raw.code),
                         << >>, gp, << >>, FALSE)

\* Gamepad::is_ff_supported of the backend: the controller is a Gamepad
\* (wgi_gamepad is Some) and has motors.  Controller 1 is one, controller 2 is
\* a raw game controller without motors.
IsFfSupported(h) == h = 1

\* Option<FfDevice>::None
NoDevice == 0

\* Gamepad::ff_device of the backend: Some device for every controller
FfDevice(h) == h

\* Message::Open { id, device } and Message::Close { id }
Open(id, device) == [msg |-> "Open", id |-> id, device |-> device]
Close(id) == [msg |-> "Close", id |-> id]

\* the force-feedback server has dropped its receiver: the end of the log
Hangup == [msg |-> "Hangup"]
Disconnected(ffq) == ffq # << >> /\ ffq[Len(ffq)] = Hangup

\* Sender::send of each of msgs: Err, and nothing delivered, once the receiver
\* is dropped
FfSend(ffq, msgs) == IF Disconnected(ffq) THEN ffq ELSE ffq \o msgs

\* RawEventType::Connected
NormaliseConnected(gp, raw) ==
    LET first == gp.id = NoId
        device == FfDevice(gp.non_roamable_id)
    IN  Norm(Ev(raw.id, raw.time, "Connected", "None", 0, NoCode), << >>,
             [gp EXCEPT !.status = "Connected",
                        !.mapping = MappingDbGet(gp.non_roamable_id),
                        !.id = IF first THEN raw.id ELSE gp.id],
             IF first /\ device # NoDevice THEN <<Open(raw.id, device)>> ELSE << >>,
             FALSE)

\* mutant of NormaliseDisconnected: the disconnection forgets the cached state
NormaliseDisconnectedClearsState(gp, raw) ==
    Norm(Ev(raw.id, raw.time, "Disconnected", "None", 0, NoCode), << >>,
         [gp EXCEPT !.status = "Disconnected", !.state = EmptyState],
         <<Close(raw.id)>>, FALSE)

\* RawEventType::Disconnected
NormaliseDisconnected(gp, raw) ==
    Norm(Ev(raw.id, raw.time, "Disconnected", "None", 0, NoCode), << >>,
         [gp EXCEPT !.status = "Disconnected"],
         <<Close(raw.id)>>, FALSE)

\* the match on the raw event in Gilrs::next_event_priv
Normalise(gp, raw) ==
    CASE raw.type = "ButtonPressed" -> NormaliseButton(gp, raw, "ButtonPressed", 100)
      [] raw.type = "ButtonReleased" -> NormaliseButton(gp, raw, "ButtonReleased", 0)
      [] raw.type = "AxisValueChanged" -> NormaliseAxis(gp, raw)
      [] raw.type = "Connected" -> NormaliseConnected(gp, raw)
      [] raw.type = "Disconnected" -> NormaliseDisconnected(gp, raw)

\* mutant of TryRecv: the newest event is taken, not the oldest
TryRecvNewest(q) == [w |-> q[Len(q)], rest |-> SubSeq(q, 1, Len(q) - 1)]

\* self.rx.try_recv().ok(): the event at the head of the channel and the rest
TryRecv(q) == [w |-> Head(q), rest |-> Tail(q)]

\* mutant of NextEventPriv: the channel is read before the companion queue
NextEventPrivChannelFirst(evq, q, gs, ffq) ==
    IF q = << >> /\ evq # << >>
    THEN [events |-> Tail(evq), rx |-> q, gamepads |-> gs, ff |-> ffq,
          panic |-> FALSE, ret |-> Head(evq)]
    ELSE IF q = << >>
    THEN [events |-> evq, rx |-> q, gamepads |-> gs, ff |-> ffq,
          panic |-> FALSE, ret |-> NoEvent]
    ELSE LET r == TryRecv(q)
             p == PlatformNextEvent(gs, r.w)
             n == Normalise(GamepadAt(p.gamepads, p.event.id), p.event)
         IN  [events |-> evq \o n.queued,
              rx |-> r.rest,
              gamepads |-> [p.gamepads EXCEPT ![p.event.id + 1] = n.gamepad],
              ff |-> FfSend(ffq, n.sent),
              panic |-> n.panic,
              ret |-> n.event]

\* Gilrs::next_event_priv on the companion queue evq, the channel q, the table
\* gs and the message log ffq: everything after the call, and the value returned
NextEventPriv(evq, q, gs, ffq) ==
    IF evq # << >>
    THEN [events |-> Tail(evq), rx |-> q, gamepads |-> gs, ff |-> ffq,
          panic |-> FALSE, ret |-> Head(evq)]
    ELSE IF q = << >>
    THEN [events |-> evq, rx |-> q, gamepads |-> gs, ff |-> ffq,
          panic |-> FALSE, ret |-> NoEvent]
    ELSE LET r == TryRecv(q)
             p == PlatformNextEvent(gs, r.w)
             n == Normalise(GamepadAt(p.gamepads, p.event.id), p.event)
         IN  [events |-> evq \o n.queued,
              rx |-> r.rest,
              gamepads |-> [p.gamepads EXCEPT ![p.event.id + 1] = n.gamepad],
              ff |-> FfSend(ffq, n.sent),
              panic |-> n.panic,
              ret |-> n.event]

\* ------------------------------------------------------------------ update
\* Gilrs::connected_gamepad_mut(id) is Some
IsConnectedGamepad(gs, id) == GamepadAt(gs, id).status = "Connected"

\* mutant of Commit: an axis change is added to the cached value
CommitAccumulates(st, ev, ctr) ==
    CASE ev.type = "ButtonPressed" -> SetBtnPressed(st, ev.code, TRUE, ctr, ev.time)
      [] ev.type = "ButtonReleased" -> SetBtnPressed(st, ev.code, FALSE, ctr, ev.time)
      [] ev.type = "ButtonRepeated" -> SetBtnRepeating(st, ev.code, ctr, ev.time)
      [] ev.type = "ButtonChanged" -> SetBtnValue(st, ev.code, ev.value, ctr, ev.time)
      [] ev.type = "AxisChanged" ->
            UpdateAxis(st, ev.code,
                       AxisData(StateValue(st, ev.code) + ev.value, ctr, ev.time))
      [] OTHER -> st

\* mutant of Commit: the entry gets the counter of the frame to come
CommitCounterAhead(st, ev, ctr) ==
    CASE ev.type = "ButtonPressed" -> SetBtnPressed(st, ev.code, TRUE, ctr + 1, ev.time)
      [] ev.type = "ButtonReleased" -> SetBtnPressed(st, ev.code, FALSE, ctr + 1, ev.time)
      [] ev.type = "ButtonRepeated" -> SetBtnRepeating(st, ev.code, ctr + 1, ev.time)
      [] ev.type = "ButtonChanged" -> SetBtnValue(st, ev.code, ev.value, ctr + 1, ev.time)
      [] ev.type = "AxisChanged" ->
            UpdateAxis(st, ev.code, AxisData(ev.value, ctr + 1, ev.time))
      [] OTHER -> st

\* the match on event.event in Gilrs::update, on the state of the gamepad
Commit(st, ev, ctr) ==
    CASE ev.type = "ButtonPressed" -> SetBtnPressed(st, ev.code, TRUE, ctr, ev.time)
      [] ev.type = "ButtonReleased" -> SetBtnPressed(st, ev.code, FALSE, ctr, ev.time)
      [] ev.type = "ButtonRepeated" -> SetBtnRepeating(st, ev.code, ctr, ev.time)
      [] ev.type = "ButtonChanged" -> SetBtnValue(st, ev.code, ev.value, ctr, ev.time)
      [] ev.type = "AxisChanged" -> UpdateAxis(st, ev.code, AxisData(ev.value, ctr, ev.time))
      [] OTHER -> st

\* mutant of UpdateTable: the gamepad is not required to be connected
UpdateTableUnchecked(gs, ev, ctr) ==
    IF ev.id + 1 \notin 1..Len(gs)
    THEN gs
    ELSE [gs EXCEPT ![ev.id + 1].state = Commit(gs[ev.id + 1].state, ev, ctr)]

\* Gilrs::update(event): the table after the call
UpdateTable(gs, ev, ctr) ==
    IF ~IsConnectedGamepad(gs, ev.id)
    THEN gs
    ELSE [gs EXCEPT ![ev.id + 1].state = Commit(gs[ev.id + 1].state, ev, ctr)]

\* ------------------------------------------------------------ the iterator
\* mutant of IteratorNext: the iterator does not look at the status
IteratorNextAll(gs, i) ==
    IF i = Len(gs) THEN [id |-> NoId, pos |-> i] ELSE [id |-> i, pos |-> i + 1]

RECURSIVE IteratorNext(_, _)
\* ConnectedGamepadsIterator::next at position i: the id yielded, NoId for
\* None, and the position after the call
IteratorNext(gs, i) ==
    IF i = Len(gs) THEN [id |-> NoId, pos |-> i]
    ELSE IF IsConnectedGamepad(gs, i) THEN [id |-> i, pos |-> i + 1]
    ELSE IteratorNext(gs, i + 1)

RECURSIVE IteratorCollect(_, _)
\* the ids a for loop takes from the iterator at position i
IteratorCollect(gs, i) ==
    LET n == IteratorNext(gs, i)
    IN  IF n.id = NoId THEN << >> ELSE <<n.id>> \o IteratorCollect(gs, n.pos)

\* Gilrs::gamepads(): ConnectedGamepadsIterator(self, 0), run to its end
Gamepads(gs) == IteratorCollect(gs, 0)

\* ------------------------------------------------------- cached-state queries
\* Gamepad::is_pressed(btn)
IsPressed(gp, btn) ==
    LET mapped == MappingMapRev(gp.mapping, Btn(btn))
        nec == IF mapped # NoCode THEN mapped ELSE ButtonToNec(btn)
    IN  IF nec = NoCode THEN FALSE ELSE StateIsPressed(gp.state, nec)

\* Gamepad::value(axis)
Value(gp, axis) ==
    LET nec == MappingMapRev(gp.mapping, Axis(axis))
    IN  IF nec = NoCode THEN 0 ELSE StateValue(gp.state, nec)

\* ------------------------------------------------------ the reading diff
\* RawGamepadReading: axes in hundredths of [0, 1], buttons, switches, time
Reading(axes, buttons, switches, time) ==
    [axes |-> axes, buttons |-> buttons, switches |-> switches, time |-> time]

\* the polling thread before it has a pair of readings to compare
NoPoll == [old |-> Reading(<< >>, << >>, << >>, 0), new |-> Reading(<< >>, << >>, << >>, 0),
           debug |-> FALSE, state |-> "running", sent |-> << >>]

\* the scenarios that do not follow the hardware or the polling loop step by step
NoHw == [clock |-> 0, of |-> << >>]
NoLoop == [readings |-> << >>, list |-> << >>, idx |-> 0, state |-> "running",
           debug |-> FALSE, last |-> << >>, first |-> << >>, failed |-> FALSE]

\* direction_from_switch: <<x, y>>
DirectionFromSwitch(switch) ==
    CASE switch = "Up" -> <<0, 1>>
      [] switch = "Down" -> <<0, -1>>
      [] switch = "Right" -> <<1, 0>>
      [] switch = "Left" -> <<-1, 0>>
      [] switch = "UpLeft" -> <<-1, 1>>
      [] switch = "UpRight" -> <<1, 1>>
      [] switch = "DownLeft" -> <<-1, -1>>
      [] switch = "DownRight" -> <<1, -1>>
      [] OTHER -> <<0, 0>>

\* `as i32` of the quotient n / d: rounds toward zero
TruncDiv(n, d) == IF n >= 0 THEN n \div d ELSE -((-n) \div d)

\* ((new.axes[index] * 65535.0) - 32768.0) as i32, of a value in hundredths
AxisRawValue(a) == TruncDiv(a * 65535 - 3276800, 100)

\* old.get(index) != new.get(index), for the 1-based position i
Differs(olds, news, i) == i > Len(olds) \/ olds[i] # news[i]

RawEv(type, val, code) == [type |-> type, val |-> val, code |-> code]

\* the loop over the axes
AxisDifferences(old, new) ==
    LET all == [i \in 1..Len(new.axes) |->
                   [differs |-> Differs(old.axes, new.axes, i),
                    ev |-> RawEv("AxisValueChanged", AxisRawValue(new.axes[i]),
                                 EvCode("Axis", i - 1))]]
        kept == SelectSeq(all, LAMBDA c : c.differs)
    IN  [i \in 1..Len(kept) |-> kept[i].ev]

\* mutant of ButtonDifferences: an event for every button, changed or not
ButtonDifferencesAll(old, new) ==
    [i \in 1..Len(new.buttons) |->
        RawEv(IF new.buttons[i] THEN "ButtonPressed" ELSE "ButtonReleased", 0,
              EvCode("Button", i - 1))]

\* the loop over the buttons
ButtonDifferences(old, new) ==
    LET all == [i \in 1..Len(new.buttons) |->
                   [differs |-> Differs(old.buttons, new.buttons, i),
                    ev |-> RawEv(IF new.buttons[i] THEN "ButtonPressed" ELSE "ButtonReleased",
                                 0, EvCode("Button", i - 1))]]
        kept == SelectSeq(all, LAMBDA c : c.differs)
    IN  [i \in 1..Len(kept) |-> kept[i].ev]

\* the loop over the switches: per switch the x component, then the y
\* component, whose event carries the index of the switch as its value
SwitchDifferences(old, new) ==
    LET comp(j) ==
            LET index == (j - 1) \div 2
                isX == (j - 1) % 2 = 0
                o == DirectionFromSwitch(old.switches[index + 1])
                n == DirectionFromSwitch(new.switches[index + 1])
            IN  IF isX
                THEN [differs |-> o[1] # n[1],
                      ev |-> RawEv("AxisValueChanged", n[1], EvCode("Switch", index * 2))]
                ELSE [differs |-> o[2] # n[2],
                      ev |-> RawEv("AxisValueChanged", index, EvCode("Switch", index * 2 + 1))]
        all == [j \in 1..(2 * Len(old.switches)) |-> comp(j)]
        kept == SelectSeq(all, LAMBDA c : c.differs)
    IN  [i \in 1..Len(kept) |-> kept[i].ev]

\* Reading::send_events_for_differences on two Raw readings, past its
\* debug_assert: the WgiEvents sent for controller h, the first at time clk + 1
SendEventsForDifferences(old, new, h, clk) ==
    LET evs == AxisDifferences(old, new) \o ButtonDifferences(old, new)
               \o SwitchDifferences(old, new)
    IN  [i \in 1..Len(evs) |-> WgiEvent(h, evs[i].type, evs[i].val, evs[i].code, clk + i)]

\* ------------------------------------------- the diff of Gamepad readings
\* GamepadReading of a Windows "Gamepad": Buttons is the set of the flags
\* that are set, the triggers and thumbsticks are in hundredths
GamepadReading(buttons, leftTrigger, leftThumbstickX, time) ==
    [Timestamp |-> time, Buttons |-> buttons,
     LeftTrigger |-> leftTrigger, RightTrigger |-> 0,
     LeftThumbstickX |-> leftThumbstickX, LeftThumbstickY |-> 0,
     RightThumbstickX |-> 0, RightThumbstickY |-> 0]

\* Reading::is_gamepad
IsGamepad(r) == "Buttons" \in DOMAIN r

\* Reading::time
ReadingTime(r) == IF IsGamepad(r) THEN r.Timestamp ELSE r.time

\* WGI_TO_GILRS_BUTTON_MAP: the flag and the native code of the 14 buttons
WGI_TO_GILRS_BUTTON_MAP ==
    << <<"DPadUp", EvCode("Button", 10)>>, <<"DPadDown", EvCode("Button", 12)>>,
       <<"DPadLeft", EvCode("Button", 13)>>, <<"DPadRight", EvCode("Button", 11)>>,
       <<"Menu", EvCode("Button", 7)>>, <<"View", EvCode("Button", 6)>>,
       <<"LeftThumbstick", EvCode("Button", 8)>>, <<"RightThumbstick", EvCode("Button", 9)>>,
       <<"LeftShoulder", EvCode("Button", 4)>>, <<"RightShoulder", EvCode("Button", 5)>>,
       <<"A", BTN_SOUTH>>, <<"B", BTN_EAST>>,
       <<"X", EvCode("Button", 2)>>, <<"Y", EvCode("Button", 3)>> >>

I32_MAX == 2147483647

\* (new * i32::MAX as f64) as i32, of a value in hundredths of [-1, 1]
GamepadAxisValue(a) == a * (I32_MAX \div 100) + TruncDiv(a * (I32_MAX % 100), 100)

\* the loop over the six axes of a Gamepad reading
GamepadAxisDifferences(old, new) ==
    LET axes == << <<new.LeftTrigger, old.LeftTrigger, EvCode("Axis", 4)>>,
                   <<new.RightTrigger, old.RightTrigger, EvCode("Axis", 5)>>,
                   <<new.LeftThumbstickX, old.LeftThumbstickX, AXIS_LSTICKX>>,
                   <<new.LeftThumbstickY, old.LeftThumbstickY, AXIS_LSTICKY>>,
                   <<new.RightThumbstickX, old.RightThumbstickX, EvCode("Axis", 3)>>,
                   <<new.RightThumbstickY, old.RightThumbstickY, EvCode("Axis", 2)>> >>
        kept == SelectSeq(axes, LAMBDA c : c[1] # c[2])
    IN  [i \in 1..Len(kept) |->
            RawEv("AxisValueChanged", GamepadAxisValue(kept[i][1]), kept[i][3])]

\* mutant of GamepadButtonDifferences: the flags are compared unmasked
GamepadButtonDifferencesUnmasked(old, new) ==
    LET kept == SelectSeq(WGI_TO_GILRS_BUTTON_MAP, LAMBDA c : new.Buttons # old.Buttons)
    IN  [i \in 1..Len(kept) |->
            RawEv(IF new.Buttons \cap {kept[i][1]} # {}
                  THEN "ButtonPressed" ELSE "ButtonReleased", 0, kept[i][2])]

\* the loop over WGI_TO_GILRS_BUTTON_MAP
GamepadButtonDifferences(old, new) ==
    LET kept == SelectSeq(WGI_TO_GILRS_BUTTON_MAP,
                          LAMBDA c : (new.Buttons \cap {c[1]}) # (old.Buttons \cap {c[1]}))
    IN  [i \in 1..Len(kept) |->
            RawEv(IF new.Buttons \cap {kept[i][1]} # {}
                  THEN "ButtonPressed" ELSE "ButtonReleased", 0, kept[i][2])]

\* Reading::send_events_for_differences on two Gamepad readings, past its
\* debug_assert: the WgiEvents sent for controller h, the first at time clk + 1
SendEventsForGamepadDifferences(old, new, h, clk) ==
    LET evs == GamepadAxisDifferences(old, new) \o GamepadButtonDifferences(old, new)
    IN  [i \in 1..Len(evs) |-> WgiEvent(h, evs[i].type, evs[i].val, evs[i].code, clk + i)]

\* ------------------------------------------------------------ construction
RECURSIVE Enumerate(_)
\* RawGameController::RawGameControllers() as a sequence, by handle
Enumerate(S) ==
    IF S = {} THEN << >>
    ELSE LET h == CHOOSE x \in S : \A y \in S : x <= y
         IN  <<h>> \o Enumerate(S \ {h})

\* Gilrs::new of the backend and GilrsBuilder::build: the controllers
\* enumerated at construction are connected gamepads, and
\* finish_gamepads_creation gives each its index as id
StartupTable(S) ==
    LET hs == Enumerate(S)
    IN  [i \in 1..Len(hs) |->
            [NewGamepad(i - 1, hs[i], "Connected") EXCEPT !.id = i - 1]]

InitCommon ==
    /\ hw = NoHw
    /\ loop = NoLoop
    /\ rx = << >>
    /\ events = << >>
    /\ counter = 0
    /\ builder = BuiltGilrs
    /\ call = NoCall
    /\ ff = << >>
    /\ panicked = FALSE
    /\ ret = NoEvent
    /\ prev = NoEvent
    /\ pc = "idle"
    /\ pending = FALSE
    /\ disciplined = TRUE
    /\ hyst = << >>
    /\ connectedSeen = {}

\* A controller the OS presents may be missing from the table built at
\* construction: it was plugged in after the enumeration of Gilrs::new and
\* before spawn_thread registered the added-handler.
Init ==
    /\ InitCommon
    /\ clock = 0
    /\ osPresent \in SUBSET Handles
    /\ \E S \in SUBSET osPresent : gamepads = StartupTable(S)
    /\ controllers = {}
    /\ poll = NoPoll

\* --------------------------------------------------------------- producers
Send(w) == rx' = Append(rx, w) /\ clock' = clock + 1

consumer == <<gamepads, events, counter, ff, panicked, ret, prev, pc, ghosts, setup>>

\* the OS adds controller h and runs added_handler
Plug(h, cap) ==
    /\ clock < cap
    /\ h \notin osPresent
    /\ osPresent' = osPresent \cup {h}
    /\ Send(WgiEvent(h, "Connected", 0, NoCode, clock + 1))
    /\ UNCHANGED <<controllers, poll, hw, loop, consumer>>

\* the OS removes controller h and runs removed_handler
Unplug(h, cap) ==
    /\ clock < cap
    /\ h \in osPresent
    /\ osPresent' = osPresent \ {h}
    /\ Send(WgiEvent(h, "Disconnected", 0, NoCode, clock + 1))
    /\ UNCHANGED <<controllers, poll, hw, loop, consumer>>

\* the polling thread starts a tick: RawGameController::RawGameControllers()
PollEnumerate ==
    /\ controllers # osPresent
    /\ controllers' = osPresent
    /\ UNCHANGED <<rx, clock, osPresent, poll, hw, loop, consumer>>

\* one tx.send of send_events_for_differences for a controller of this tick
PollSend(h, type, val, code, cap) ==
    /\ clock < cap
    /\ h \in controllers
    /\ Send(WgiEvent(h, type, val, code, clock + 1))
    /\ UNCHANGED <<osPresent, controllers, poll, hw, loop, consumer>>

\* the raw axis value the controllers report in the general scenario: 0.8
RawAxisValues == {RawOfBtn(80)}

PollSendButton(cap, hs, codes) ==
    \E h \in hs, type \in {"ButtonPressed", "ButtonReleased"}, c \in codes :
        PollSend(h, type, 0, c, cap)

PollSendAxis(cap, hs, vals, codes) ==
    \E h \in hs, v \in vals, c \in codes :
        PollSend(h, "AxisValueChanged", v, c, cap)

\* ---------------------------------------------------------------- consumer
producers == <<clock, osPresent, controllers, poll, hw, loop>>

\* one call of Gilrs::next_event_priv by the caller
Pull ==
    /\ ~panicked /\ pc = "idle"
    /\ LET r == NextEventPriv(events, rx, gamepads, ff)
       IN  /\ events' = r.events
           /\ rx' = r.rx
           /\ gamepads' = r.gamepads
           /\ ff' = r.ff
           /\ panicked' = r.panic
           /\ ret' = r.ret
           /\ prev' = ret
           /\ pending' = (r.ret # NoEvent)
    /\ UNCHANGED <<producers, counter, pc, setup>>

\* Gilrs::next_event with default_filters = false, which is next_event_priv
NextEvent == Pull /\ UNCHANGED <<disciplined, hyst, connectedSeen>>

\* Gilrs::update(ev), the variables update can write
UpdateCall(ev) ==
    /\ ~panicked /\ pc = "idle"
    /\ gamepads' = UpdateTable(gamepads, ev, counter)
    /\ UNCHANGED <<rx, producers, events, counter, ff, panicked, ret, prev, pc, setup>>

\* the caller commits the event next_event has just returned
Update ==
    /\ pending
    /\ UpdateCall(ret)
    /\ pending' = FALSE
    /\ UNCHANGED <<disciplined, hyst, connectedSeen>>

Next ==
    \/ \E h \in Handles : Plug(h, MaxSend)
    \/ \E h \in Handles : Unplug(h, MaxSend)
    \/ PollEnumerate
    \/ PollSendButton(MaxSend, Handles, {BTN_SOUTH})
    \/ PollSendAxis(MaxSend, Handles, RawAxisValues, {AXIS_LSTICKX})
    \/ NextEvent
    \/ Update

Spec == Init /\ [][Next]_vars

\* ------------------------------------------------------------ the filters
\* EventType::Dropped in place of the event's type
Dropped(ev) == [ev EXCEPT !.type = "Dropped"]

Abs(x) == IF x < 0 THEN -x ELSE x

\* the threshold of axis_dpad_to_button, in hundredths
DpadThreshold == 60

\* axis_dpad_to_button: the change of a dpad axis becomes the press or the
\* release of a dpad button
AxisDpadToButton(ev, gs) ==
    IF ev.type = "AxisChanged" /\ ev.name \in {"DPadX", "DPadY"}
    THEN [ev EXCEPT !.type = IF Abs(ev.value) >= DpadThreshold
                              THEN "ButtonPressed" ELSE "ButtonReleased",
                    !.name = CASE ev.name = "DPadX" /\ ev.value >= 0 -> "DPadRight"
                               [] ev.name = "DPadX" -> "DPadLeft"
                               [] ev.value >= 0 -> "DPadUp"
                               [] OTHER -> "DPadDown"]
    ELSE ev

\* the threshold of Jitter::new(), in hundredths
JitterThreshold == 1

\* Jitter: an axis change smaller than the threshold, measured from the value
\* the cache holds for the code, is dropped
Jitter(ev, gs) ==
    LET st == GamepadAt(gs, ev.id).state
    IN  IF /\ ev.type = "AxisChanged"
           /\ ev.code \in DOMAIN st.axes
           /\ Abs(ev.value - st.axes[ev.code].value) < JitterThreshold
        THEN Dropped(ev)
        ELSE ev

\* the deadzone of a native axis, in hundredths: AxisInfo.deadzone is None
DeadzoneOf(nec) == 0

\* a value outside the deadzone d rescaled to the full range, inside snapped to 0
DeadzoneValue(v, d) ==
    IF Abs(v) <= d THEN 0
    ELSE (IF v < 0 THEN -1 ELSE 1) * (((Abs(v) - d) * 100) \div (100 - d))

\* deadzone: rewrites the value of an axis change
Deadzone(ev, gs) ==
    IF ev.type = "AxisChanged"
    THEN [ev EXCEPT !.value = DeadzoneValue(ev.value, DeadzoneOf(ev.code))]
    ELSE ev

\* Option<Event>::filter_ev through the three default filters, in order
DefaultFilters(ev, gs) ==
    IF ev = NoEvent THEN NoEvent
    ELSE Deadzone(Jitter(AxisDpadToButton(ev, gs), gs), gs)

\* One iteration of the loop of Gilrs::next_event with default_filters = true,
\* the first one included; skip: a dropped event sends the loop round again.
FilterLoop(skip) ==
    /\ ~panicked
    /\ LET r == NextEventPriv(events, rx, gamepads, ff)
           ev == DefaultFilters(r.ret, r.gamepads)
       IN  /\ events' = r.events
           /\ rx' = r.rx
           /\ gamepads' = r.gamepads
           /\ ff' = r.ff
           /\ panicked' = r.panic
           /\ IF skip /\ ev.type = "Dropped"
              THEN pc' = "loop" /\ UNCHANGED <<ret, prev, pending>>
              ELSE pc' = "idle" /\ ret' = ev /\ prev' = ret /\ pending' = (ev # NoEvent)
    /\ UNCHANGED <<producers, counter, disciplined, hyst, connectedSeen, setup>>

\* mutant of NextEventFiltered: a dropped event is returned like any other
NextEventFilteredKeepsDropped == FilterLoop(FALSE)

\* Gilrs::next_event with default_filters = true
NextEventFiltered == FilterLoop(TRUE)

\* --------------------------------------------------- the filtered scenario
\* One controller; its second raw value rescales to the same hundredth as the
\* first, a change below the threshold of the jitter filter.
FiltHandles == {1}
FiltRawValues == {RawOfBtn(80), RawOfBtn(80) + 1}

InitFilt ==
    /\ InitCommon
    /\ clock = 0
    /\ osPresent \in SUBSET FiltHandles
    /\ \E S \in SUBSET osPresent : gamepads = StartupTable(S)
    /\ controllers = {}
    /\ poll = NoPoll

NextFilt ==
    \/ \E h \in FiltHandles : Plug(h, MaxSendFilt)
    \/ \E h \in FiltHandles : Unplug(h, MaxSendFilt)
    \/ PollEnumerate
    \/ PollSendButton(MaxSendFilt, FiltHandles, {BTN_SOUTH})
    \/ PollSendAxis(MaxSendFilt, FiltHandles, FiltRawValues, {AXIS_LSTICKX})
    \/ NextEventFiltered
    \/ Update

SpecFilt == InitFilt /\ [][NextFilt]_vars

\* the next iteration of a call that has met a dropped event
LoopAgain == pc = "loop" /\ NextEventFiltered

\* a call that has begun goes on: the caller's thread keeps running
FairSpecFilt == SpecFilt /\ WF_vars(LoopAgain)

\* ------------------------------------------------- the hysteresis scenario
\* Controller 1 was plugged in after construction and the caller has pulled and
\* committed its Connected event: the gamepad has the mapping of the database,
\* in which AXIS_LSTICKY is the semantic button RightTrigger2.
HystConnected == Ev(0, 1, "Connected", "None", 0, NoCode)

HystTable ==
    <<[NewGamepad(0, 1, "Connected") EXCEPT !.mapping = MappingDbGet(1), !.id = 0]>>

InitHyst ==
    /\ hw = NoHw
    /\ loop = NoLoop
    /\ rx = << >>
    /\ events = << >>
    /\ counter = 0
    /\ builder = BuiltGilrs
    /\ call = NoCall
    /\ ff = <<Open(0, FfDevice(1))>>
    /\ panicked = FALSE
    /\ ret = HystConnected
    /\ prev = NoEvent
    /\ pc = "idle"
    /\ pending = FALSE
    /\ disciplined = TRUE
    /\ hyst = << >>
    /\ connectedSeen = {}
    /\ clock = 1
    /\ osPresent = {1}
    /\ gamepads = HystTable
    /\ controllers = {}
    /\ poll = NoPoll

\* the raw values of the axis: rescaled 0.0, 0.6, 0.7 and 0.8
HystRawValues == {RawOfBtn(0), RawOfBtn(60), RawOfBtn(70), RawOfBtn(80)}

\* next_event; the raw axis value normalised and the type of event made of it
\* are recorded, and whether the caller had committed the event before
NextEventHyst ==
    /\ Pull
    /\ disciplined' = (disciplined /\ ~pending)
    /\ hyst' = IF events = << >> /\ rx # << >> /\ Head(rx).type = "AxisValueChanged"
               THEN Append(hyst, <<ValueBtn(AxisInfo(Head(rx).code).info, Head(rx).val),
                                   ret'.type>>)
               ELSE hyst
    /\ UNCHANGED connectedSeen

\* update(ret); the commit is lost when the gamepad is no longer connected
UpdateHyst ==
    /\ pending
    /\ UpdateCall(ret)
    /\ pending' = FALSE
    /\ disciplined' = (disciplined /\ IsConnectedGamepad(gamepads, ret.id))
    /\ UNCHANGED <<hyst, connectedSeen>>

NextHyst ==
    \/ Unplug(1, MaxSendHyst)
    \/ PollEnumerate
    \/ PollSendAxis(MaxSendHyst, {1}, HystRawValues, {AXIS_LSTICKY})
    \/ NextEventHyst
    \/ UpdateHyst

SpecHyst == InitHyst /\ [][NextHyst]_vars

\* the mapped scenario: controller 1, connected with the mapping of the
\* database, sends button and axis events for codes mapped to semantic
\* buttons and to semantic axes
NextMapped ==
    \/ PollEnumerate
    \/ PollSendButton(MaxSendMapped, {1}, {BTN_SOUTH, BTN_EAST})
    \/ PollSendAxis(MaxSendMapped, {1}, {RawOfBtn(0), RawOfBtn(80)},
                    {AXIS_LSTICKX, AXIS_LSTICKY})
    \/ NextEvent
    \/ Update

SpecMapped == InitHyst /\ [][NextMapped]_vars

\* ------------------------------------------------------- the diff scenario
\* Controller 1, present at construction, has two axes, one button and one
\* switch; the polling thread holds a pair of readings of it.
DiffAxisValues == {0, 50}
DiffSwitches == {"Center", "Up", "UpRight"}

DiffReadings ==
    {Reading(<<a1, a2>>, <<b>>, <<s>>, t) :
        a1 \in DiffAxisValues, a2 \in DiffAxisValues, b \in BOOLEAN,
        s \in DiffSwitches, t \in 1..MaxTime}

\* debug: the build keeps debug_assert!
InitDiff ==
    /\ InitCommon
    /\ clock = 0
    /\ osPresent = {1}
    /\ gamepads = StartupTable({1})
    /\ controllers = {1}
    /\ poll \in [old : DiffReadings, new : DiffReadings, debug : BOOLEAN,
                 state : {"running"}, sent : {<< >>}]

\* the polling thread calls send_events_for_differences(old, new, controller 1):
\* the debug_assert of a debug build panics the thread unless old is the
\* earlier reading
PollDiff ==
    /\ poll.state = "running"
    /\ IF poll.debug /\ ~(poll.old.time < poll.new.time)
       THEN /\ poll' = [poll EXCEPT !.state = "panicked"]
            /\ UNCHANGED <<rx, clock>>
       ELSE LET evs == SendEventsForDifferences(poll.old, poll.new, 1, clock)
            IN  /\ rx' = rx \o evs
                /\ clock' = clock + Len(evs)
                /\ poll' = [poll EXCEPT !.state = "diffed", !.sent = evs]
    /\ UNCHANGED <<osPresent, controllers, hw, loop, consumer>>

NextDiff ==
    \/ PollDiff
    \/ NextEvent

SpecDiff == InitDiff /\ [][NextDiff]_vars

\* ---------------------------------------------------- the button scenario
\* Controller 1 is either a raw controller with one axis and two buttons or a
\* Windows "Gamepad"; the polling thread holds a pair of readings of it and
\* calls send_events_for_differences on the pair.
ButtonRawReadings ==
    {Reading(<<a>>, <<b1, b2>>, << >>, t) :
        a \in DiffAxisValues, b1 \in BOOLEAN, b2 \in BOOLEAN, t \in 1..MaxTime}

\* two mapped flags and one flag that WGI_TO_GILRS_BUTTON_MAP does not list
ButtonFlags == {"A", "DPadUp", "Paddle1"}

ButtonGamepadReadings ==
    {GamepadReading(bs, lt, 0, t) :
        bs \in SUBSET ButtonFlags, lt \in DiffAxisValues, t \in 1..MaxTime}

InitButtons ==
    /\ InitCommon
    /\ clock = 0
    /\ osPresent = {1}
    /\ gamepads = StartupTable({1})
    /\ controllers = {1}
    /\ \E rs \in {ButtonRawReadings, ButtonGamepadReadings} :
            poll \in [old : rs, new : rs, debug : BOOLEAN,
                      state : {"running"}, sent : {<< >>}]

\* Reading::send_events_for_differences(old, new, controller 1): the
\* debug_assert, then the arm of the two kinds of reading
PollDiffReading ==
    /\ poll.state = "running"
    /\ IF poll.debug /\ ~(ReadingTime(poll.old) < ReadingTime(poll.new))
       THEN /\ poll' = [poll EXCEPT !.state = "panicked"]
            /\ UNCHANGED <<rx, clock>>
       ELSE IF IsGamepad(poll.old) # IsGamepad(poll.new)
       THEN /\ poll' = [poll EXCEPT !.state = IF poll.debug THEN "panicked" ELSE "diffed"]
            /\ UNCHANGED <<rx, clock>>
       ELSE LET evs == IF IsGamepad(poll.new)
                       THEN SendEventsForGamepadDifferences(poll.old, poll.new, 1, clock)
                       ELSE SendEventsForDifferences(poll.old, poll.new, 1, clock)
            IN  /\ rx' = rx \o evs
                /\ clock' = clock + Len(evs)
                /\ poll' = [poll EXCEPT !.state = "diffed", !.sent = evs]
    /\ UNCHANGED <<osPresent, controllers, hw, loop, consumer>>

NextButtons == PollDiffReading

SpecButtons == InitButtons /\ [][NextButtons]_vars

\* ------------------------------------------------------ the axis scenario
\* Controller 1 is either a raw controller with one axis and three switches
\* or a Windows "Gamepad" whose left trigger and left thumbstick move; the
\* polling thread holds a pair of readings of it and calls
\* send_events_for_differences on the pair.
AxisRawReadings ==
    {Reading(<<a>>, << >>, <<s1, s2, s3>>, t) :
        a \in {0, 50, 100}, s1 \in {"Center", "Up"}, s2 \in {"Center", "Up"},
        s3 \in {"Center", "Up"}, t \in 1..MaxTime}

AxisGamepadReadings ==
    {GamepadReading({}, lt, lx, t) :
        lt \in {0, 50, 100}, lx \in {-100, 0, 100}, t \in 1..MaxTime}

\* Gamepad::axis_info of the device: of a Windows "Gamepad" the trigger and
\* thumbstick ranges, for any code; of another controller AxisInfo
DeviceAxisInfo(isGamepad, nec) ==
    IF ~isGamepad THEN AxisInfo(nec)
    ELSE IF nec \in {EvCode("Axis", 4), EvCode("Axis", 5)}
    THEN [some |-> TRUE, info |-> AxisInfoOf(0, I32_MAX)]
    ELSE [some |-> TRUE, info |-> AxisInfoOf(-I32_MAX - 1, I32_MAX)]

InitAxes ==
    /\ InitCommon
    /\ clock = 0
    /\ osPresent = {1}
    /\ gamepads = StartupTable({1})
    /\ controllers = {1}
    /\ \E rs \in {AxisRawReadings, AxisGamepadReadings} :
            poll \in [old : rs, new : rs, debug : BOOLEAN,
                      state : {"running"}, sent : {<< >>}]

SpecAxes == InitAxes /\ [][PollDiffReading]_vars

\* ----------------------------------------------------- the device scenario
\* Gilrs::create_ff_devices: an Open for every gamepad of the table that
\* supports force feedback, in the order of the table
CreateFfDevices(gs) ==
    LET F[i \in 0..Len(gs)] ==
            IF i = 0 THEN << >>
            ELSE IF IsFfSupported(gs[i].non_roamable_id) /\ FfDevice(gs[i].non_roamable_id) # NoDevice
                 THEN Append(F[i - 1], Open(i - 1, FfDevice(gs[i].non_roamable_id)))
                 ELSE F[i - 1]
    IN  F[Len(gs)]

\* the Mapping that Mapping::from_data builds from the caller's MappingData
UserMapping == (BTN_SOUTH :> Btn("East"))

\* MappingData the caller passes: the native code of each semantic control.
\* Plain data, data with the extension controls Button::C and Axis::LeftZ,
\* and data with the key Button::Unknown.
DataEast == (Btn("East") :> BTN_SOUTH)
DataC == (Btn("C") :> BTN_SOUTH)
DataLeftZ == (Axis("LeftZ") :> AXIS_LSTICKX)
DataUnknown == (Btn("Unknown") :> BTN_SOUTH)
MappingDatas == {DataEast, DataC, DataLeftZ, DataUnknown}

\* Mapping::from_data: the error, or Ok and the Mapping of the data reversed
FromData(data) ==
    IF \E ab \in DOMAIN data : ab.name = "Unknown"
    THEN [result |-> "UnknownElement", mapping |-> DefaultMapping]
    ELSE [result |-> "Ok",
          mapping |-> [c \in {data[ab] : ab \in DOMAIN data} |->
                          CHOOSE ab \in DOMAIN data : data[ab] = c]]

\* mutant of SetMappingOf: the mapping is written before the data is checked
SetMappingOfEarlyWrite(gp, data) ==
    IF gp.status # "Connected"
    THEN [result |-> "NotConnected", gamepad |-> gp]
    ELSE [result |-> FromData(data).result,
          gamepad |-> [gp EXCEPT !.mapping = FromData(data).mapping]]

\* Gamepad::set_mapping(data, name): the Result and the gamepad after the call
SetMappingOf(gp, data) ==
    IF gp.status # "Connected"
    THEN [result |-> "NotConnected", gamepad |-> gp]
    ELSE LET m == FromData(data)
         IN  IF m.result # "Ok"
             THEN [result |-> m.result, gamepad |-> gp]
             ELSE [result |-> "Ok", gamepad |-> [gp EXCEPT !.mapping = m.mapping]]

\* the controls without an SDL2 equivalent
ExtensionControls == {Btn("C"), Btn("Z"), Axis("LeftZ"), Axis("RightZ")}

\* mutant of SetMappingStrictOf: the axes of the data are not examined
SetMappingStrictOfButtonsOnly(gp, data) ==
    IF \E ab \in DOMAIN data : ab \in {Btn("C"), Btn("Z")}
    THEN [result |-> "NotSdl2Compatible", gamepad |-> gp]
    ELSE SetMappingOf(gp, data)

\* Gamepad::set_mapping_strict(data, name)
SetMappingStrictOf(gp, data) ==
    IF \E ab \in DOMAIN data : ab \in ExtensionControls
    THEN [result |-> "NotSdl2Compatible", gamepad |-> gp]
    ELSE SetMappingOf(gp, data)

\* GilrsBuilder::build with the controllers S present at construction
InitDev ==
    /\ hw = NoHw
    /\ loop = NoLoop
    /\ rx = << >>
    /\ events = << >>
    /\ counter = 0
    /\ builder = BuiltGilrs
    /\ call = NoCall
    /\ panicked = FALSE
    /\ ret = NoEvent
    /\ prev = NoEvent
    /\ pc = "idle"
    /\ pending = FALSE
    /\ disciplined = TRUE
    /\ hyst = << >>
    /\ connectedSeen = {}
    /\ clock = 0
    /\ osPresent \in SUBSET Handles
    /\ gamepads = StartupTable(osPresent)
    /\ ff = CreateFfDevices(gamepads)
    /\ controllers = {}
    /\ poll = NoPoll

\* the caller's gilrs.gamepad_mut(id).set_mapping(data, None)
SetMapping(id, data) ==
    /\ ~panicked /\ pc = "idle"
    /\ id + 1 \in 1..Len(gamepads)
    /\ gamepads' = [gamepads EXCEPT ![id + 1] = SetMappingOf(@, data).gamepad]
    /\ UNCHANGED <<rx, producers, events, counter, ff, panicked, ret, prev, pc, ghosts, setup>>

\* the caller's gilrs.gamepad_mut(id).set_mapping_strict(data, None)
SetMappingStrict(id, data) ==
    /\ ~panicked /\ pc = "idle"
    /\ id + 1 \in 1..Len(gamepads)
    /\ gamepads' = [gamepads EXCEPT ![id + 1] = SetMappingStrictOf(@, data).gamepad]
    /\ UNCHANGED <<rx, producers, events, counter, ff, panicked, ret, prev, pc, ghosts, setup>>

\* Gilrs::next_event_priv, recording the ids whose Connected it normalises
NextEventDev ==
    /\ Pull
    /\ connectedSeen' =
           IF events = << >> /\ rx # << >> /\ Head(rx).type = "Connected"
           THEN connectedSeen \cup {PlatformNextEvent(gamepads, Head(rx)).event.id}
           ELSE connectedSeen
    /\ UNCHANGED <<disciplined, hyst>>

NextDev ==
    \/ \E h \in Handles : Plug(h, MaxSendDev)
    \/ \E h \in Handles : Unplug(h, MaxSendDev)
    \/ PollEnumerate
    \/ PollSendButton(MaxSendDev, Handles, {BTN_SOUTH})
    \/ NextEventDev
    \/ Update
    \/ \E id \in 0..1, data \in {DataEast, DataUnknown} : SetMapping(id, data)

SpecDev == InitDev /\ [][NextDev]_vars

\* the force-feedback server ends and drops the receiver of the channel
ServerHangup ==
    /\ ~Disconnected(ff)
    /\ ff' = Append(ff, Hangup)
    /\ UNCHANGED <<rx, producers, gamepads, events, counter, panicked, ret, prev, pc, ghosts,
                   setup>>

\* Gamepad::set_listener_position: the Result and the log of the server
SetListenerPositionOf(gp, ffq) ==
    IF gp.status # "Connected" THEN [result |-> "Disconnected", ff |-> ffq]
    ELSE IF ~IsFfSupported(gp.non_roamable_id) THEN [result |-> "FfNotSupported", ff |-> ffq]
    ELSE [result |-> IF Disconnected(ffq) THEN "SendError" ELSE "Ok",
          ff |-> FfSend(ffq, <<[msg |-> "SetListenerPosition", id |-> gp.id]>>)]

\* the caller's gilrs.gamepad(id).set_listener_position(position)
SetListenerPosition(id) ==
    /\ ~panicked /\ pc = "idle"
    /\ Len(ff) < MaxFfLog
    /\ id + 1 \in 1..Len(gamepads)
    /\ LET r == SetListenerPositionOf(gamepads[id + 1], ff)
       IN  /\ ff' = r.ff
           /\ call' = [op |-> "set_listener_position", args |-> <<id>>, result |-> r.result]
    /\ UNCHANGED <<rx, producers, gamepads, events, counter, panicked, ret, prev, pc, ghosts,
                   builder>>

\* the mapping scenario: controllers come and go while the caller sets
\* mappings and listener positions, and the force-feedback server may end
NextMap ==
    \/ ServerHangup
    \/ \E id \in 0..1 : SetListenerPosition(id)
    \/ \E h \in Handles : Plug(h, MaxSendDev)
    \/ \E h \in Handles : Unplug(h, MaxSendDev)
    \/ NextEventDev
    \/ \E id \in 0..1, data \in MappingDatas : SetMappingStrict(id, data)
    \/ \E id \in 0..1, data \in MappingDatas : SetMapping(id, data)

SpecMap == InitDev /\ [][NextMap]_vars

\* ---------------------------------------------------- the builder scenario
\* the f32 values set_axis_to_btn is called with
ThresholdInputs == {-1, 0, 1, 50, 65, 75, 100, 101, NaN}

\* GilrsBuilder::new()
InitBuilder ==
    /\ hw = NoHw
    /\ loop = NoLoop
    /\ rx = << >>
    /\ events = << >>
    /\ counter = 0
    /\ ff = << >>
    /\ panicked = FALSE
    /\ ret = NoEvent
    /\ prev = NoEvent
    /\ pc = "idle"
    /\ pending = FALSE
    /\ disciplined = TRUE
    /\ hyst = << >>
    /\ connectedSeen = {}
    /\ clock = 0
    /\ osPresent = {}
    /\ gamepads = << >>
    /\ controllers = {}
    /\ poll = NoPoll
    /\ builder = GilrsBuilderNew
    /\ call = NoCall

\* GilrsBuilder::set_axis_to_btn(pressed, released)
SetAxisToBtn(pressed, released) ==
    /\ builder.state = "builder"
    /\ call' = [op |-> "set_axis_to_btn", args |-> <<pressed, released>>]
    /\ builder' = IF AxisToBtnAccepted(pressed, released)
                  THEN [builder EXCEPT !.axis_to_btn_pressed = pressed,
                                       !.axis_to_btn_released = released]
                  ELSE [builder EXCEPT !.state = "panicked"]
    /\ UNCHANGED <<rx, producers, gamepads, events, counter, ff, panicked, ret, prev, pc,
                   ghosts>>

\* GilrsBuilder::build()
BuildGilrs ==
    /\ builder.state = "builder"
    /\ builder' = Build(builder)
    /\ UNCHANGED <<rx, producers, gamepads, events, counter, ff, panicked, ret, prev, pc,
                   ghosts, call>>

NextBuilder ==
    \/ \E pressed \in ThresholdInputs, released \in ThresholdInputs :
            SetAxisToBtn(pressed, released)
    \/ BuildGilrs

SpecBuilder == InitBuilder /\ [][NextBuilder]_vars

\* ---------------------------------------------------- the counter scenario
\* mutant of CounterInc: the counter does not wrap
CounterIncNoWrap(c) == c + 1

\* the counter after Gilrs::inc
CounterInc(c) == IF c = CounterMax THEN 0 ELSE c + 1

\* Gilrs::inc()
Inc ==
    /\ ~panicked /\ pc = "idle"
    /\ counter' = CounterInc(counter)
    /\ call' = [op |-> "inc", args |-> << >>]
    /\ UNCHANGED <<rx, producers, gamepads, events, ff, panicked, ret, prev, pc, ghosts,
                   builder>>

\* Gilrs::reset_counter()
ResetCounter ==
    /\ ~panicked /\ pc = "idle"
    /\ counter' = 0
    /\ call' = [op |-> "reset_counter", args |-> << >>]
    /\ UNCHANGED <<rx, producers, gamepads, events, ff, panicked, ret, prev, pc, ghosts,
                   builder>>

\* Controller 1 is present at construction and stays; the polling thread has
\* enumerated it.
InitCounter ==
    /\ InitCommon
    /\ clock = 0
    /\ osPresent = {1}
    /\ gamepads = StartupTable(osPresent)
    /\ controllers = osPresent
    /\ poll = NoPoll

\* what the caller and the polling thread do besides reset_counter
NextWrap ==
    \/ PollSendButton(MaxSendCtr, {1}, {BTN_SOUTH, BTN_EAST})
    \/ PollSendAxis(MaxSendCtr, {1}, RawAxisValues, {AXIS_LSTICKX})
    \/ NextEvent
    \/ Update
    \/ Inc

\* a caller that never calls reset_counter
SpecWrap == InitCounter /\ [][NextWrap]_vars

NextCounter ==
    \/ NextWrap
    \/ ResetCounter
    \/ \E h \in Handles : Plug(h, MaxSendCtr)
    \/ \E h \in Handles : Unplug(h, MaxSendCtr)

SpecCounter == InitCounter /\ [][NextCounter]_vars

\* ---------------------------------------------------- the polling scenario
\* Every controller is a raw controller with one button.  loop.readings is the
\* Vec<(Reading, Reading)> of the polling thread, indexed by the position of a
\* controller in the enumeration of the tick; oldOf / newOf record which
\* controller a buffer was read from, loop.last the timestamp of the reading
\* the thread last took of each controller, loop.first the reading it first
\* took of each controller.
PairOf(old, new, oldOf, newOf) == [old |-> old, new |-> new, oldOf |-> oldOf, newOf |-> newOf]

ButtonReading(b, t) == Reading(<< >>, <<b>>, << >>, t)

InitPoll ==
    /\ rx = << >>
    /\ events = << >>
    /\ counter = 0
    /\ builder = BuiltGilrs
    /\ call = NoCall
    /\ ff = << >>
    /\ panicked = FALSE
    /\ ret = NoEvent
    /\ prev = NoEvent
    /\ pc = "idle"
    /\ pending = FALSE
    /\ disciplined = TRUE
    /\ hyst = << >>
    /\ connectedSeen = {}
    /\ clock = 0
    /\ osPresent \in SUBSET Handles
    /\ gamepads = StartupTable(osPresent)
    /\ controllers = {}
    /\ poll = NoPoll
    /\ \E held \in [Handles -> BOOLEAN] :
            hw = [clock |-> 0, of |-> [h \in Handles |-> ButtonReading(held[h], 0)]]
    /\ \E debug \in BOOLEAN :
            loop = [readings |-> << >>, list |-> << >>, idx |-> 0, state |-> "running",
                    debug |-> debug, last |-> [h \in Handles |-> -1],
                    first |-> [h \in Handles |-> ButtonReading(FALSE, -1)],
                    failed |-> FALSE]

\* the button of a present controller changes; the OS stamps the new reading
HwInput(h) ==
    /\ h \in osPresent
    /\ hw.clock < MaxInput
    /\ hw' = [clock |-> hw.clock + 1,
              of |-> [hw.of EXCEPT ![h] =
                         ButtonReading(~hw.of[h].buttons[1], hw.clock + 1)]]
    /\ UNCHANGED <<rx, clock, osPresent, controllers, poll, loop, consumer>>

\* the polling thread wakes up and enumerates: RawGameControllers()
PollTickStart ==
    /\ loop.state = "running" /\ loop.idx = 0
    /\ osPresent # {}
    /\ controllers' = osPresent
    /\ loop' = [loop EXCEPT !.list = Enumerate(osPresent), !.idx = 1]
    /\ UNCHANGED <<rx, clock, osPresent, poll, hw, consumer>>

\* mutant of PollController: the buffers are not swapped, the new reading
\* overwrites the new buffer and the old buffer stays what it was
PollControllerNoSwap(ok) ==
    /\ loop.state = "running" /\ loop.idx > 0
    /\ LET i == loop.idx
           h == loop.list[i]
           r == hw.of[h]
           created == IF Len(loop.readings) < i
                      THEN Append(loop.readings, PairOf(r, r, h, h))
                      ELSE loop.readings
           pair == PairOf(created[i].old, r, created[i].oldOf, h)
           after == [loop EXCEPT !.readings = [created EXCEPT ![i] = pair],
                                 !.idx = IF i < Len(loop.list) THEN i + 1 ELSE 0,
                                 !.last[h] = r.time,
                                 !.first[h] = IF loop.last[h] = -1 THEN r ELSE @]
       IN  IF ~ok
           THEN /\ loop' = [loop EXCEPT !.state = "panicked", !.failed = TRUE]
                /\ UNCHANGED <<rx, clock>>
           ELSE IF pair.old.time = pair.new.time
           THEN /\ loop' = after
                /\ UNCHANGED <<rx, clock>>
           ELSE IF loop.debug /\ ~(pair.old.time < pair.new.time)
           THEN /\ loop' = [after EXCEPT !.state = "panicked"]
                /\ UNCHANGED <<rx, clock>>
           ELSE LET evs == SendEventsForDifferences(pair.old, pair.new, h, clock)
                IN  /\ loop' = after
                    /\ rx' = rx \o evs
                    /\ clock' = clock + Len(evs)
    /\ UNCHANGED <<osPresent, controllers, poll, hw, consumer>>

\* the body of the for loop for the controller at position loop.idx; ok: the
\* OS reads of this iteration succeed.  A failed read panics in unwrap().
PollController(ok) ==
    /\ loop.state = "running" /\ loop.idx > 0
    /\ LET i == loop.idx
           h == loop.list[i]
           r == hw.of[h]
           created == IF Len(loop.readings) < i
                      THEN Append(loop.readings, PairOf(r, r, h, h))
                      ELSE loop.readings
           pair == PairOf(created[i].new, r, created[i].newOf, h)
           after == [loop EXCEPT !.readings = [created EXCEPT ![i] = pair],
                                 !.idx = IF i < Len(loop.list) THEN i + 1 ELSE 0,
                                 !.last[h] = r.time,
                                 !.first[h] = IF loop.last[h] = -1 THEN r ELSE @]
       IN  IF ~ok
           THEN /\ loop' = [loop EXCEPT !.state = "panicked", !.failed = TRUE]
                /\ UNCHANGED <<rx, clock>>
           ELSE IF pair.old.time = pair.new.time
           THEN /\ loop' = after
                /\ UNCHANGED <<rx, clock>>
           ELSE IF loop.debug /\ ~(pair.old.time < pair.new.time)
           THEN /\ loop' = [after EXCEPT !.state = "panicked"]
                /\ UNCHANGED <<rx, clock>>
           ELSE LET evs == SendEventsForDifferences(pair.old, pair.new, h, clock)
                IN  /\ loop' = after
                    /\ rx' = rx \o evs
                    /\ clock' = clock + Len(evs)
    /\ UNCHANGED <<osPresent, controllers, poll, hw, consumer>>

NextPoll ==
    \/ \E h \in Handles : Plug(h, MaxSendPoll)
    \/ \E h \in Handles : Unplug(h, MaxSendPoll)
    \/ \E h \in Handles : HwInput(h)
    \/ PollTickStart
    \/ \E ok \in BOOLEAN : PollController(ok)

SpecPoll == InitPoll /\ [][NextPoll]_vars

\* ------------------------------------------------------ the class scenario
\* Controller 1 is a Windows "Gamepad", controller 2 is a raw controller only;
\* both have one button, which is the A button of the Gamepad.  hw.of is the
\* reading RawGameController::GetCurrentReading gives, hw.pad the reading
\* Gamepad::GetCurrentReading gives.
\* WgiGamepad::FromGameController(controller) is Ok
FromGameControllerOk(h) == h = 1

PadReading(b, t) == GamepadReading(IF b THEN {"A"} ELSE {}, 0, 0, t)

\* the reading the loop makes for a position that has no pair yet
NewReading(h, hwv) == IF FromGameControllerOk(h) THEN hwv.pad[h] ELSE hwv.of[h]

\* mutant of ReadingUpdate: the buffer takes the class of the controller read
ReadingUpdateReclassify(buf, h, hwv) == [ok |-> TRUE, r |-> NewReading(h, hwv)]

\* Reading::update of the buffer buf for controller h: a Raw buffer takes the
\* raw reading of the controller, a Gamepad buffer the Gamepad reading, and
\* fails when the controller is no Gamepad
ReadingUpdate(buf, h, hwv) ==
    IF IsGamepad(buf)
    THEN IF FromGameControllerOk(h)
         THEN [ok |-> TRUE, r |-> hwv.pad[h]]
         ELSE [ok |-> FALSE, r |-> buf]
    ELSE [ok |-> TRUE, r |-> hwv.of[h]]

InitClass ==
    /\ rx = << >>
    /\ events = << >>
    /\ counter = 0
    /\ builder = BuiltGilrs
    /\ call = NoCall
    /\ ff = << >>
    /\ panicked = FALSE
    /\ ret = NoEvent
    /\ prev = NoEvent
    /\ pc = "idle"
    /\ pending = FALSE
    /\ disciplined = TRUE
    /\ hyst = << >>
    /\ connectedSeen = {}
    /\ clock = 0
    /\ osPresent \in SUBSET Handles
    /\ gamepads = StartupTable(osPresent)
    /\ controllers = {}
    /\ poll = NoPoll
    /\ \E held \in [Handles -> BOOLEAN] :
            hw = [clock |-> 0, of |-> [h \in Handles |-> ButtonReading(held[h], 0)],
                  pad |-> [h \in Handles |-> PadReading(held[h], 0)]]
    /\ \E debug \in BOOLEAN :
            loop = [readings |-> << >>, list |-> << >>, idx |-> 0, state |-> "running",
                    debug |-> debug, failed |-> FALSE, mismatch |-> FALSE]

\* the button of a present controller changes; the OS stamps the new reading
HwInputClass(h) ==
    /\ h \in osPresent
    /\ hw.clock < MaxInput
    /\ hw' = [clock |-> hw.clock + 1,
              of |-> [hw.of EXCEPT ![h] =
                         ButtonReading(~hw.of[h].buttons[1], hw.clock + 1)],
              pad |-> [hw.pad EXCEPT ![h] =
                         PadReading(~hw.of[h].buttons[1], hw.clock + 1)]]
    /\ UNCHANGED <<rx, clock, osPresent, controllers, poll, loop, consumer>>

\* the body of the for loop for the controller at position loop.idx, with
\* the class of the buffers; ok: the OS reads of this iteration succeed.  A
\* failed read, or a failed Reading::update, panics in unwrap().
PollControllerClass(ok) ==
    /\ loop.state = "running" /\ loop.idx > 0
    /\ LET i == loop.idx
           h == loop.list[i]
           n == NewReading(h, hw)
           created == IF Len(loop.readings) < i
                      THEN Append(loop.readings, PairOf(n, n, h, h))
                      ELSE loop.readings
           u == ReadingUpdate(created[i].old, h, hw)
           pair == PairOf(created[i].new, u.r, created[i].newOf, h)
           after == [loop EXCEPT !.readings = [created EXCEPT ![i] = pair],
                                 !.idx = IF i < Len(loop.list) THEN i + 1 ELSE 0]
       IN  IF ~ok \/ ~u.ok
           THEN /\ loop' = [loop EXCEPT !.state = "panicked", !.failed = TRUE]
                /\ UNCHANGED <<rx, clock>>
           ELSE IF ReadingTime(pair.old) = ReadingTime(pair.new)
           THEN /\ loop' = after
                /\ UNCHANGED <<rx, clock>>
           ELSE IF loop.debug /\ ~(ReadingTime(pair.old) < ReadingTime(pair.new))
           THEN /\ loop' = [after EXCEPT !.state = "panicked"]
                /\ UNCHANGED <<rx, clock>>
           ELSE IF IsGamepad(pair.old) # IsGamepad(pair.new)
           THEN /\ loop' = [after EXCEPT !.mismatch = TRUE,
                                         !.state = IF loop.debug THEN "panicked" ELSE @]
                /\ UNCHANGED <<rx, clock>>
           ELSE LET evs == IF IsGamepad(pair.new)
                           THEN SendEventsForGamepadDifferences(pair.old, pair.new, h, clock)
                           ELSE SendEventsForDifferences(pair.old, pair.new, h, clock)
                IN  /\ loop' = after
                    /\ rx' = rx \o evs
                    /\ clock' = clock + Len(evs)
    /\ UNCHANGED <<osPresent, controllers, poll, hw, consumer>>

NextClass ==
    \/ \E h \in Handles : Plug(h, MaxSendPoll)
    \/ \E h \in Handles : Unplug(h, MaxSendPoll)
    \/ \E h \in Handles : HwInputClass(h)
    \/ PollTickStart
    \/ \E ok \in BOOLEAN : PollControllerClass(ok)

SpecClass == InitClass /\ [][NextClass]_vars

\* ------------------------------------------------------------- properties
EdgeTypes == {"ButtonPressed", "ButtonReleased"}
InputTypes == EdgeTypes \cup {"ButtonChanged", "AxisChanged"}

\* an edge event made from a raw ButtonPressed / ButtonReleased: the producer
\* sends these with codes of kind Button only
IsRawEdge(e) == e.type \in EdgeTypes /\ e.code.kind = "Button"

\* the ButtonChanged that belongs to a raw edge event
Companion(e) ==
    Ev(e.id, e.time, "ButtonChanged", e.name,
       IF e.type = "ButtonPressed" THEN 100 ELSE 0, e.code)

\* the caller's update(ret)
Committed == pending /\ ~pending' /\ UNCHANGED <<ret, prev, rx, events, producers>>

\* a step of next_event: a step that is neither a producer's nor an update
Pulled == UNCHANGED producers /\ ~Committed /\ vars' # vars

\* C1: a ButtonPressed / ButtonReleased made from a raw button event whose code
\* is mapped to a semantic button leaves exactly its ButtonChanged (1.0 / 0.0,
\* same id, time and code) in the companion queue, and the next call returns it,
\* leaving the queue empty, whatever the channel holds.
C1_EdgeThenCompanion ==
    /\ (IsRawEdge(ret) /\ ret.name # "Unknown") => events = <<Companion(ret)>>
    /\ (IsRawEdge(prev) /\ prev.name # "Unknown") =>
            (ret = Companion(prev) /\ events = << >>)

\* C1 witness: the companion of a mapped press was returned while an event of
\* the other device was waiting in the channel
C1_Witness ==
    /\ prev.type = "ButtonPressed" /\ prev.name = "South"
    /\ ret = Companion(prev)
    /\ rx # << >> /\ Head(rx).h # gamepads[prev.id + 1].non_roamable_id

\* C2 (as claimed): a gamepad that is not Connected reads false / 0.0 for every
\* button and axis
C2_NotConnectedReadsZero ==
    \A i \in 1..Len(gamepads) :
        gamepads[i].status # "Connected" =>
            /\ \A b \in Buttons : ~IsPressed(gamepads[i], b)
            /\ \A a \in Axes : Value(gamepads[i], a) = 0

\* every kind of event a caller can pass to update, for device id
EventsOfEveryKind(id) ==
    {Ev(id, 0, type, "South", 50, BTN_SOUTH) :
        type \in InputTypes \cup {"ButtonRepeated", "Connected", "Disconnected", "Dropped"}}

\* C3: update(ev) leaves the whole table as it is when ev.id is not Connected:
\* in every update step the caller takes, and for each kind of event in every
\* state reached
C3_UpdateNoOpUnlessConnected ==
    [][/\ (Committed /\ ~IsConnectedGamepad(gamepads, ret.id)) => gamepads' = gamepads
       /\ \A id \in 0..Cardinality(Handles) :
            ~IsConnectedGamepad(gamepads', id) =>
                \A ev \in EventsOfEveryKind(id) :
                    UpdateTable(gamepads', ev, counter') = gamepads']_vars

\* C3 witness: the caller has committed a button event of a disconnected
\* gamepad whose cache holds an entry
C3_Witness ==
    /\ ret.type \in InputTypes /\ ~pending
    /\ GamepadAt(gamepads, ret.id).status = "Disconnected"
    /\ DOMAIN GamepadAt(gamepads, ret.id).state.buttons # {}

\* the status of device id, in the table or not
StatusOf(gs, id) == GamepadAt(gs, id).status

\* C5 (as claimed): the status of a device id changes only NotObserved ->
\* Connected, Connected -> Disconnected, Disconnected -> Connected
C5_StatusTransitions ==
    [][\A id \in 0..(Cardinality(Handles) - 1) :
          StatusOf(gamepads', id) # StatusOf(gamepads, id) =>
              <<StatusOf(gamepads, id), StatusOf(gamepads', id)>> \in
                  {<<"NotObserved", "Connected">>, <<"Connected", "Disconnected">>,
                   <<"Disconnected", "Connected">>}]_vars

\* C6 (as claimed): a button or axis event is only returned for a gamepad
\* whose status is Connected
C6_InputOnlyFromConnected ==
    ret.type \in InputTypes => StatusOf(gamepads, ret.id) = "Connected"

\* the events in the channel are the last Len(rx) events sent, in send order
ChannelInOrder(q, clk) == \A i \in 1..Len(q) : q[i].time = clk - Len(q) + i

\* C7: the channel holds the events sent and not yet returned, in send order;
\* a call that finds the companion queue empty returns the oldest of them and
\* removes exactly that one, and returns None only when the channel is empty
C7_ChannelExactlyOnce ==
    [][/\ ChannelInOrder(rx', clock')
       /\ (Pulled /\ events = << >> /\ rx # << >>) =>
                /\ rx' = Tail(rx)
                /\ ret'.time = Head(rx).time
                /\ gamepads'[ret'.id + 1].non_roamable_id = Head(rx).h
       /\ (Pulled /\ ret' = NoEvent) => (rx = << >> /\ events = << >>)
       /\ (ret' # NoEvent) => ret'.time = clock' - Len(rx')]_vars

\* C7 witness: the second of two queued events has been returned, a third waits
C7_Witness == ret.time = 2 /\ prev.time = 1 /\ Len(rx) = 1 /\ clock = 3

\* C8: the table never shrinks, entry i keeps its handle and has id i, no
\* handle is in the table twice, an event of a known handle is delivered with
\* that entry's id, and an event of an unknown handle appends one entry whose
\* id is the length the table had
C8_TableAppendOnly ==
    [][/\ Len(gamepads') >= Len(gamepads)
       /\ \A i \in 1..Len(gamepads) :
            gamepads'[i].non_roamable_id = gamepads[i].non_roamable_id
       /\ \A i \in 1..Len(gamepads') : gamepads'[i].pid = i - 1
       /\ \A i, j \in 1..Len(gamepads') :
            gamepads'[i].non_roamable_id = gamepads'[j].non_roamable_id => i = j
       /\ (Pulled /\ events = << >> /\ rx # << >>) =>
            LET h == Head(rx).h
                known == \E i \in 1..Len(gamepads) : gamepads[i].non_roamable_id = h
            IN  /\ gamepads'[ret'.id + 1].non_roamable_id = h
                /\ known => Len(gamepads') = Len(gamepads)
                /\ ~known => (Len(gamepads') = Len(gamepads) + 1 /\ ret'.id = Len(gamepads))]_vars

\* C8 witness: a table of two gamepads, the second appended mid-session, and
\* the first, reconnected, still under id 0
C8_Witness ==
    /\ Len(gamepads) = 2 /\ gamepads[2].status = "NotObserved"
    /\ ret.type = "Connected" /\ ret.id = 0 /\ prev.type = "Disconnected" /\ prev.id = 0

\* the rescaled values and the event types recorded in hyst
HystValues == [i \in 1..Len(hyst) |-> hyst[i][1]]
HystTypes == [i \in 1..Len(hyst) |-> hyst[i][2]]

\* C4 (as claimed): the values 0.0, 0.8, 0.7, 0.6 yield no edge, ButtonPressed,
\* no edge, ButtonReleased, whatever the caller does between the calls
C4_HysteresisAsClaimed ==
    HystValues = <<0, 80, 70, 60>> =>
        HystTypes = <<"ButtonChanged", "ButtonPressed", "ButtonChanged", "ButtonReleased">>

\* C4: when the caller has committed every event returned, while the gamepad
\* was connected and before the next call, the values 0.0, 0.8, 0.7, 0.6 yield
\* no edge, ButtonPressed, no edge, ButtonReleased
C4_Hysteresis ==
    (disciplined /\ HystValues = <<0, 80, 70, 60>>) =>
        HystTypes = <<"ButtonChanged", "ButtonPressed", "ButtonChanged", "ButtonReleased">>

\* C4 witness: the four values were normalised under a caller that committed
\* every event, and the release was returned
C4_Witness ==
    /\ disciplined /\ HystValues = <<0, 80, 70, 60>>
    /\ ret.type = "ButtonChanged" /\ ret.value = 60 /\ prev.type = "ButtonReleased"

\* the events of a call that refer to a native code
SentFor(code) == {i \in 1..Len(poll.sent) : poll.sent[i].code = code}

\* exactly one event, of one of the types, for the code when differs, else none
OneEventIff(differs, code, types) ==
    /\ Cardinality(SentFor(code)) = IF differs THEN 1 ELSE 0
    /\ \A i \in SentFor(code) : poll.sent[i].type \in types

\* the call has sent exactly one event per component that differs
OnePerDifference ==
    /\ \A i \in 1..Len(poll.new.axes) :
            OneEventIff(poll.old.axes[i] # poll.new.axes[i], EvCode("Axis", i - 1),
                        {"AxisValueChanged"})
    /\ \A i \in 1..Len(poll.new.buttons) :
            OneEventIff(poll.old.buttons[i] # poll.new.buttons[i], EvCode("Button", i - 1),
                        {IF poll.new.buttons[i] THEN "ButtonPressed" ELSE "ButtonReleased"})
    /\ \A i \in 1..Len(poll.new.switches) :
            LET o == DirectionFromSwitch(poll.old.switches[i])
                n == DirectionFromSwitch(poll.new.switches[i])
            IN  /\ OneEventIff(o[1] # n[1], EvCode("Switch", 2 * (i - 1)),
                               {"AxisValueChanged"})
                /\ OneEventIff(o[2] # n[2], EvCode("Switch", 2 * (i - 1) + 1),
                               {"AxisValueChanged"})
    /\ \A i \in 1..Len(poll.sent) :
            poll.sent[i].code \in
                {EvCode("Axis", k - 1) : k \in 1..Len(poll.new.axes)}
                \cup {EvCode("Button", k - 1) : k \in 1..Len(poll.new.buttons)}
                \cup {EvCode("Switch", k - 1) : k \in 1..(2 * Len(poll.new.switches))}

C10_DiffWhenOrdered ==
    (poll.state # "running" /\ poll.old.time < poll.new.time) => OnePerDifference

Returned == Pulled /\ pc' = "idle"

\* C9: with the default filters next_event never returns a dropped event, it
\* returns None only when the companion queue and the channel are both empty,
\* and a call that has begun to skip dropped events returns
C9_NeverReturnsDropped ==
    /\ [](ret.type # "Dropped")
    /\ [][(Returned /\ ret' = NoEvent) => (events = << >> /\ rx = << >>)]_vars
    /\ (pc = "loop" ~> pc = "idle")

\* C9 witness: the call has dropped an event and goes round the loop again,
\* with more events waiting in the channel
C9_Witness == pc = "loop" /\ rx # << >>

\* C2 witness: a button reads pressed on a gamepad that a Connected event had connected
\* and a Disconnected event has disconnected
C2_Witness ==
    \E i \in 1..Len(gamepads) :
        /\ gamepads[i].status = "Disconnected" /\ gamepads[i].id # NoId
        /\ gamepads[i].mapping = SdlMapping
        /\ IsPressed(gamepads[i], "South")

\* C6 witness: a button event was returned for a gamepad that a Connected event had
\* connected and a Disconnected event, returned before, has disconnected
C6_Witness ==
    /\ ret.type \in EdgeTypes /\ prev.type = "Disconnected" /\ prev.id = ret.id
    /\ StatusOf(gamepads, ret.id) = "Disconnected"
    /\ GamepadAt(gamepads, ret.id).mapping = SdlMapping

\* C5 witness: a gamepad appended for a Disconnected event has gone from NotObserved to
\* Disconnected
C5_Witness ==
    /\ ret.type = "Disconnected" /\ prev = NoEvent
    /\ StatusOf(gamepads, ret.id) = "Disconnected"
    /\ GamepadAt(gamepads, ret.id).id = NoId

\* C11 (as claimed): every event sent for a switch carries the new value of its
\* component: new_x under Switch(2i), new_y under Switch(2i + 1)
C11_SwitchCarriesNewComponent ==
    \A i \in 1..Len(poll.new.switches) :
        LET n == DirectionFromSwitch(poll.new.switches[i])
        IN  /\ \A k \in SentFor(EvCode("Switch", 2 * (i - 1))) : poll.sent[k].val = n[1]
            /\ \A k \in SentFor(EvCode("Switch", 2 * (i - 1) + 1)) : poll.sent[k].val = n[2]

\* C11 witness: the switch went from Center to Up and the event sent for its
\* y component carries 0, the index of the switch, not the new y of 1
C11_Witness ==
    /\ poll.state = "diffed"
    /\ poll.old.switches = <<"Center">> /\ poll.new.switches = <<"Up">>
    /\ \E k \in SentFor(EvCode("Switch", 1)) : poll.sent[k].val = 0

\* a step of the polling loop for the controller at position loop.idx
PollStepped == loop.idx > 0 /\ loop' # loop

\* C12 (as claimed): a tick on which the OS reports for a controller the
\* timestamp of the reading the thread last took of it sends nothing
C12_IdleControllerSendsNothing ==
    [][(PollStepped /\ ~loop'.failed
            /\ hw.of[loop.list[loop.idx]].time = loop.last[loop.list[loop.idx]])
          => rx' = rx]_vars

\* C12 witness: a button event was sent for controller 2, whose hardware has
\* taken no input at all
C12_Witness ==
    /\ hw.of[2].time = 0
    /\ \E k \in 1..Len(rx) : rx[k].h = 2 /\ rx[k].type \in EdgeTypes

\* C13 (as claimed): a failed OS read sends nothing and leaves the loop
\* running, at the next controller of the tick
C13_ReadFailureIsNoChange ==
    [][(PollStepped /\ loop'.failed)
          => /\ rx' = rx
             /\ loop'.state = "running"
             /\ loop'.idx = IF loop.idx < Len(loop.list) THEN loop.idx + 1 ELSE 0]_vars

\* C13 witness: a read has failed and the polling thread is gone while an
\* input of a present controller has not been reported
C13_Witness ==
    /\ loop.failed /\ loop.state = "panicked"
    /\ \E h \in osPresent : hw.of[h].time > loop.last[h] /\ loop.last[h] >= 0

\* next_event_priv takes a raw event of the type for gamepad id off the channel
Normalises(type, id) ==
    /\ events = << >> /\ rx # << >> /\ rx' = Tail(rx)
    /\ Head(rx).type = type
    /\ PlatformNextEvent(gamepads, Head(rx)).event.id = id

DevIds == 0..1

\* C14 (as claimed): a Connected raw event for a device that a Connected raw
\* event has been normalised for before leaves the device's mapping as it is
C14_ReconnectKeepsMapping ==
    [][\A id \in DevIds :
          (Normalises("Connected", id) /\ id \in connectedSeen)
              => GamepadAt(gamepads', id).mapping = GamepadAt(gamepads, id).mapping]_vars

\* C14 witness: the next raw event is the second Connected of a device that
\* carries the mapping set_mapping installed after the first
C14_Witness ==
    /\ ~panicked /\ pc = "idle" /\ events = << >> /\ rx # << >>
    /\ Head(rx).type = "Connected"
    /\ LET id == PlatformNextEvent(gamepads, Head(rx)).event.id
       IN  /\ id \in connectedSeen
           /\ GamepadAt(gamepads, id).status = "Disconnected"
           /\ GamepadAt(gamepads, id).mapping = UserMapping

\* C15 (as claimed): normalising a Connected raw event sends Open{id, device}
\* when the device supports force feedback, and nothing when it does not
C15_OpenOnEveryConnected ==
    [][\A id \in DevIds :
          Normalises("Connected", id)
              => ff' = ff \o (IF IsFfSupported(Head(rx).h)
                              THEN <<Open(id, FfDevice(Head(rx).h))>>
                              ELSE << >>)]_vars

\* C15 witness: a device supporting force feedback was closed by its
\* disconnection and has reconnected, and no Open follows the Close
C15_Witness ==
    /\ ret.type = "Connected"
    /\ IsFfSupported(GamepadAt(gamepads, ret.id).non_roamable_id)
    /\ ff # << >> /\ ff[Len(ff)] = Close(ret.id)

\* C16: normalising a Disconnected raw event sets the status Disconnected,
\* sends exactly one Close{id}, returns the Disconnected event with nothing
\* queued behind it, and leaves the cached state, the mapping and the id
C16_DisconnectedKeepsDevice ==
    [][\A id \in DevIds :
          Normalises("Disconnected", id)
              => /\ GamepadAt(gamepads', id).status = "Disconnected"
                 /\ ff' = Append(ff, Close(id))
                 /\ ret'.type = "Disconnected" /\ ret'.id = id
                 /\ events' = << >>
                 /\ GamepadAt(gamepads', id).state = GamepadAt(gamepads, id).state
                 /\ GamepadAt(gamepads', id).mapping = GamepadAt(gamepads, id).mapping
                 /\ GamepadAt(gamepads', id).id = GamepadAt(gamepads, id).id]_vars

\* C16 witness: a device with a cached button and an installed mapping has
\* been disconnected
C16_Witness ==
    /\ ret.type = "Disconnected"
    /\ GamepadAt(gamepads, ret.id).status = "Disconnected"
    /\ DOMAIN GamepadAt(gamepads, ret.id).state.buttons # {}
    /\ GamepadAt(gamepads, ret.id).mapping = UserMapping
    /\ ff # << >> /\ ff[Len(ff)] = Close(ret.id)

\* the arguments the claim has set_axis_to_btn reject
Rejected(pressed, released) ==
    \/ pressed = NaN \/ released = NaN
    \/ pressed <= released
    \/ pressed < 0 \/ pressed > 100
    \/ released < 0 \/ released > 100

\* C17: set_axis_to_btn(pressed, released) panics exactly when pressed <=
\* released or a value is outside [0, 1]; a Gilrs that is built has
\* 0 <= axis_to_btn_released < axis_to_btn_pressed <= 1, and 0.75 / 0.65 when
\* set_axis_to_btn was never called
C17_ThresholdsRejectedEagerly ==
    /\ call.op = "set_axis_to_btn" =>
            (builder.state = "panicked" <=> Rejected(call.args[1], call.args[2]))
    /\ builder.state = "built" =>
            /\ builder.axis_to_btn_pressed # NaN /\ builder.axis_to_btn_released # NaN
            /\ 0 <= builder.axis_to_btn_released
            /\ builder.axis_to_btn_released < builder.axis_to_btn_pressed
            /\ builder.axis_to_btn_pressed <= 100
    /\ (builder.state = "built" /\ call = NoCall) =>
            /\ builder.axis_to_btn_pressed = 75
            /\ builder.axis_to_btn_released = 65

\* C17 witness: a Gilrs built with the thresholds 1.0 / 0.0, the widest pair
\* set_axis_to_btn accepts
C17_Witness ==
    /\ builder.state = "built"
    /\ call = [op |-> "set_axis_to_btn", args |-> <<100, 0>>]
    /\ builder.axis_to_btn_pressed = 100 /\ builder.axis_to_btn_released = 0

\* a step in which nothing but the counter and the record of the call changes
OnlyCounterChanges ==
    UNCHANGED <<rx, producers, gamepads, events, ff, panicked, ret, prev, pc, ghosts, builder>>

\* C18: the counter starts at 0 and stays within 0..max; inc() adds 1, or
\* yields 0 at the maximum; reset_counter() yields 0; no other operation
\* changes the counter
C18_CounterWraps ==
    [][/\ counter \in 0..CounterMax /\ counter' \in 0..CounterMax
       /\ call'.op = "none" => counter' = 0
       /\ (call' # call \/ counter' # counter) =>
            /\ OnlyCounterChanges
            /\ call'.op \in {"inc", "reset_counter"}
            /\ call'.op = "inc" =>
                    counter' = IF counter = CounterMax THEN 0 ELSE counter + 1
            /\ call'.op = "reset_counter" => counter' = 0
       /\ (call' = call /\ ~OnlyCounterChanges) => counter' = counter]_vars

\* C18 witness: inc() has just wrapped the counter to 0 while the cache holds
\* an entry stored at the maximum
C18_Witness ==
    /\ counter = 0 /\ call.op = "inc"
    /\ \E c \in DOMAIN GamepadAt(gamepads, 0).state.buttons :
            GamepadAt(gamepads, 0).state.buttons[c].counter = CounterMax

\* the cached entry of the event's native code
EntryOf(gs, ev) ==
    IF ev.type = "AxisChanged"
    THEN GamepadAt(gs, ev.id).state.axes[ev.code]
    ELSE GamepadAt(gs, ev.id).state.buttons[ev.code]

\* C19: an update that commits a button or axis event of a connected device
\* stores in the entry of the event's code the value counter() returns then
C19_UpdateStoresCounter ==
    [][(Committed /\ ret.type \in InputTypes /\ IsConnectedGamepad(gamepads, ret.id))
          => /\ EntryOf(gamepads', ret).counter = counter
             /\ counter' = counter]_vars

\* C19 witness: an entry committed after the counter has moved carries the
\* counter's value
C19_Witness ==
    /\ ~pending /\ ret.type \in InputTypes /\ counter = 2
    /\ IsConnectedGamepad(gamepads, ret.id)
    /\ EntryOf(gamepads, ret).counter = 2
    /\ EntryOf(gamepads, ret).time = ret.time

\* the cached entries of a gamepad, buttons and axes
Entries(gp) ==
    {gp.state.buttons[c] : c \in DOMAIN gp.state.buttons}
        \cup {gp.state.axes[c] : c \in DOMAIN gp.state.axes}

\* C20 (as claimed): an entry that update commits is never ranked older, by
\* its stored counter, than an entry the cache already holds
C20_WrapKeepsAgeOrder ==
    [][(Committed /\ ret.type \in InputTypes /\ IsConnectedGamepad(gamepads, ret.id))
          => \A e \in Entries(GamepadAt(gamepads, ret.id)) :
                e.counter <= EntryOf(gamepads', ret).counter]_vars

\* C20 witness: of two entries the one committed for the later event carries
\* the smaller counter, inc() having wrapped in between
C20_Witness ==
    \E e1 \in Entries(GamepadAt(gamepads, 0)), e2 \in Entries(GamepadAt(gamepads, 0)) :
        /\ e1.time < e2.time
        /\ e1.counter = CounterMax /\ e2.counter = 0

\* C21: gamepads() yields exactly the gamepads of the table whose status is
\* Connected, each once, in strictly increasing order of id, and
\* connected_gamepad(id) is Some exactly for those
C21_GamepadsYieldsConnected ==
    LET ys == Gamepads(gamepads)
    IN  /\ \A k \in 1..Len(ys) :
                ys[k] \in 0..(Len(gamepads) - 1) /\ gamepads[ys[k] + 1].status = "Connected"
        /\ \A id \in 0..(Len(gamepads) - 1) :
                gamepads[id + 1].status = "Connected" =>
                    Cardinality({k \in 1..Len(ys) : ys[k] = id}) = 1
        /\ \A k \in 1..(Len(ys) - 1) : ys[k] < ys[k + 1]
        /\ \A id \in 0..(Len(gamepads) + 1) :
                IsConnectedGamepad(gamepads, id) <=>
                    (id < Len(gamepads) /\ gamepads[id + 1].status = "Connected")

\* C21 witness: the iterator skips a disconnected gamepad and yields the
\* connected one behind it
C21_Witness ==
    /\ Len(gamepads) = 2
    /\ gamepads[1].status = "Disconnected" /\ gamepads[2].status = "Connected"
    /\ Gamepads(gamepads) = <<1>>

\* the gamepads of the table and the placeholder of an id outside it
DevGamepads == {GamepadAt(gamepads, id) : id \in 0..Len(gamepads)}

\* C22: set_mapping returns NotConnected for a gamepad that is not Connected,
\* leaves the mapping as it is on every error, and replaces it only with Ok
C22_SetMappingErrorsKeepMapping ==
    \A gp \in DevGamepads, data \in MappingDatas :
        LET r == SetMappingOf(gp, data)
        IN  /\ gp.status # "Connected" => r.result = "NotConnected"
            /\ r.result # "Ok" => r.gamepad = gp
            /\ r.gamepad # gp => r.result = "Ok"
            /\ r.result = "Ok" => r.gamepad = [gp EXCEPT !.mapping = FromData(data).mapping]

\* C22 witness: a disconnected gamepad carries a mapping that set_mapping
\* installed while it was connected, and a connected gamepad is offered data
\* that from_data refuses
C22_Witness ==
    /\ \E gp \in DevGamepads :
            /\ gp.status = "Disconnected" /\ gp.mapping = FromData(DataC).mapping
            /\ SetMappingOf(gp, DataEast).result = "NotConnected"
    /\ \E gp \in DevGamepads :
            /\ gp.status = "Connected" /\ gp.mapping = UserMapping
            /\ SetMappingOf(gp, DataUnknown).result = "UnknownElement"

\* C23: set_mapping_strict returns NotSdl2Compatible and leaves the mapping
\* for data with an entry for Button::C, Button::Z, Axis::LeftZ or
\* Axis::RightZ, and is set_mapping for every other data
C23_StrictRejectsExtensions ==
    \A gp \in DevGamepads, data \in MappingDatas :
        LET r == SetMappingStrictOf(gp, data)
        IN  IF DOMAIN data \cap {Btn("C"), Btn("Z"), Axis("LeftZ"), Axis("RightZ")} # {}
            THEN r.result = "NotSdl2Compatible" /\ r.gamepad = gp
            ELSE r = SetMappingOf(gp, data)

\* C23 witness: a connected gamepad whose mapping set_mapping_strict has
\* installed is offered data with Axis::LeftZ, which set_mapping accepts
C23_Witness ==
    \E gp \in DevGamepads :
        /\ gp.status = "Connected" /\ gp.mapping = UserMapping
        /\ SetMappingStrictOf(gp, DataLeftZ).result = "NotSdl2Compatible"
        /\ SetMappingOf(gp, DataLeftZ).result = "Ok"

\* C24 (as claimed): with the receiver of the force-feedback server dropped,
\* no call reports the failed send, and next_event returns the event and
\* leaves the table as it does with the server running
C24_SendFailureIgnored ==
    [][/\ call'.op = "set_listener_position" => call'.result # "SendError"
       /\ (Disconnected(ff) /\ ~panicked /\ rx' # rx /\ UNCHANGED producers) =>
            LET r == NextEventPriv(events, rx, gamepads, << >>)
            IN  ret' = r.ret /\ gamepads' = r.gamepads /\ ~panicked']_vars

\* C24 witness: next_event has returned Disconnected for a closed gamepad
\* after the server ended, the Close lost
C24_Witness ==
    /\ Disconnected(ff) /\ ret.type = "Disconnected"
    /\ GamepadAt(gamepads, ret.id).status = "Disconnected"
    /\ \A i \in 1..Len(ff) : ff[i] # Close(ret.id)

\* C25: controller 2, whose UUID has no entry in the mapping database, gets
\* the default mapping at its Connected event, and each of its raw button and
\* axis events comes out labelled Unknown (the edge with its companion
\* ButtonChanged, the axis change alone) with the native code of the raw event
C25_UnmappedDeviceReportsUnknown ==
    [][\A id \in DevIds :
          LET raw == Head(rx)
          IN  /\ (Normalises("Connected", id) /\ raw.h = 2) =>
                    GamepadAt(gamepads', id).mapping = DefaultMapping
              /\ \A type \in EdgeTypes :
                    (Normalises(type, id) /\ raw.h = 2) =>
                        /\ ret' = Ev(id, raw.time, type, "Unknown", 0, raw.code)
                        /\ events' = <<Companion(ret')>>
              /\ (Normalises("AxisValueChanged", id) /\ raw.h = 2) =>
                    /\ ret' = Ev(id, raw.time, "AxisChanged", "Unknown",
                                 ValueAxis(AxisInfo(raw.code).info, raw.val), raw.code)
                    /\ events' = << >>]_vars

\* C25 witness: controller 2 was connected in the session and a button press
\* of it has come out as ButtonPressed(Unknown) with its companion queued
C25_Witness ==
    /\ ret.type = "ButtonPressed" /\ ret.name = "Unknown" /\ ret.code = BTN_SOUTH
    /\ GamepadAt(gamepads, ret.id).non_roamable_id = 2
    /\ GamepadAt(gamepads, ret.id).status = "Connected"
    /\ \E i \in 1..Len(ff) : ff[i] = Open(ret.id, FfDevice(2))
    /\ events = <<Companion(ret)>>

\* the cached entries of every gamepad, by id
CachedStates(gs) == [i \in 1..Len(gs) |-> gs[i].state]

\* what retrieval writes of the devices: status, mapping and id, by id
DeviceFields(gs) == [i \in 1..Len(gs) |-> <<gs[i].status, gs[i].mapping, gs[i].id>>]

\* C26: a step that takes a raw event or a queued companion, returns an
\* event, or changes a status, a mapping, an id or the length of the table
\* leaves every cached entry and the counter; a step that changes a cached
\* entry is the caller's update, and leaves the channel, the companion queue,
\* the event returned, the counter and every status, mapping and id
C26_RetrievalAndCommitDecoupled ==
    [][/\ ((rx' # rx /\ UNCHANGED producers)
            \/ events' # events \/ ret' # ret \/ prev' # prev
            \/ DeviceFields(gamepads') # DeviceFields(gamepads)) =>
            /\ SubSeq(CachedStates(gamepads'), 1, Len(gamepads)) = CachedStates(gamepads)
            /\ \A i \in (Len(gamepads) + 1)..Len(gamepads') :
                    gamepads'[i].state = EmptyState
            /\ counter' = counter
       /\ (CachedStates(gamepads') # CachedStates(gamepads)
                /\ Len(gamepads') = Len(gamepads)) =>
            /\ pending /\ ~pending'
            /\ gamepads' = UpdateTable(gamepads, ret, counter)
            /\ UNCHANGED <<rx, events, ret, prev, counter, ff>>
            /\ DeviceFields(gamepads') = DeviceFields(gamepads)]_vars

\* C26 witness: update has written the entry of the edge returned last while
\* its companion waits in the queue and a raw event in the channel
C26_Witness ==
    /\ ~pending /\ ret.type \in EdgeTypes /\ events = <<Companion(ret)>> /\ rx # << >>
    /\ IsConnectedGamepad(gamepads, ret.id)
    /\ ret.code \in DOMAIN GamepadAt(gamepads, ret.id).state.buttons
    /\ GamepadAt(gamepads, ret.id).state.buttons[ret.code].time = ret.time

\* C27: update(ev) called twice in a row, with no inc() in between, leaves
\* the table as one call does: for the event returned last and for an event
\* of every kind, for every device
C27_UpdateIdempotent ==
    \A ev \in {ret} \cup UNION {EventsOfEveryKind(id) : id \in 0..Cardinality(Handles)} :
        LET once == UpdateTable(gamepads, ev, counter)
        IN  UpdateTable(once, ev, counter) = once

\* C27 witness: the caller has committed an axis change after the counter
\* moved, and committing it again would leave the table
C27_Witness ==
    /\ ~pending /\ ret.type = "AxisChanged" /\ ret.value # 0 /\ counter > 0
    /\ IsConnectedGamepad(gamepads, ret.id)
    /\ ret.code \in DOMAIN GamepadAt(gamepads, ret.id).state.axes
    /\ GamepadAt(gamepads, ret.id).state.axes[ret.code] =
            AxisData(ret.value, counter, ret.time)
    /\ UpdateTable(gamepads, ret, counter) = gamepads

\* C28: a raw event whose code the mapping maps to a semantic axis comes out
\* as one AxisChanged of that axis with the code of the raw event, 1.0 for a
\* press, 0.0 for a release and the rescaled value for an axis change, and
\* nothing is queued behind it
C28_MappedToAxisYieldsAxisChanged ==
    [][\A id \in DevIds :
          LET raw == Head(rx)
              ab == MappingMap(GamepadAt(gamepads, id).mapping, raw.code)
              value == CASE raw.type = "ButtonPressed" -> 100
                         [] raw.type = "ButtonReleased" -> 0
                         [] OTHER -> ValueAxis(AxisInfo(raw.code).info, raw.val)
          IN  \A type \in {"ButtonPressed", "ButtonReleased", "AxisValueChanged"} :
                  (Normalises(type, id) /\ ab.t = "Axis") =>
                      /\ ret' = Ev(id, raw.time, "AxisChanged", ab.name, value, raw.code)
                      /\ events' = << >>]_vars

\* C28 witness: the press of the button that the mapping maps to the axis
\* LeftZ has come out as AxisChanged(LeftZ, 1.0) with nothing queued
C28_Witness ==
    /\ ret = Ev(0, ret.time, "AxisChanged", "LeftZ", 100, BTN_EAST)
    /\ prev.type = "AxisChanged" /\ prev.name = "LeftStickX" /\ prev.code = AXIS_LSTICKX
    /\ events = << >>

\* C29: a raw AxisValueChanged whose code is mapped to a semantic button b,
\* with v the rescaled value and p the cached pressed state of the code:
\* v >= 0.75 and not p returns ButtonPressed and queues ButtonChanged(b, v);
\* else v <= 0.65 and p returns ButtonReleased and queues ButtonChanged(b, v);
\* otherwise ButtonChanged(b, v) is returned and nothing is queued; no edge
\* comes of a value strictly between the thresholds
C29_AxisToButtonThresholds ==
    [][\A id \in DevIds :
          LET raw == Head(rx)
              gp == GamepadAt(gamepads, id)
              ab == MappingMap(gp.mapping, raw.code)
              v == ValueBtn(AxisInfo(raw.code).info, raw.val)
              p == StateIsPressed(gp.state, raw.code)
              changed == Ev(id, raw.time, "ButtonChanged", ab.name, v, raw.code)
          IN  (Normalises("AxisValueChanged", id) /\ ab.t = "Btn") =>
                  /\ IF v >= 75 /\ ~p
                     THEN /\ ret' = Ev(id, raw.time, "ButtonPressed", ab.name, 0, raw.code)
                          /\ events' = <<changed>>
                     ELSE IF v <= 65 /\ p
                     THEN /\ ret' = Ev(id, raw.time, "ButtonReleased", ab.name, 0, raw.code)
                          /\ events' = <<changed>>
                     ELSE ret' = changed /\ events' = << >>
                  /\ (65 < v /\ v < 75) => ret'.type \notin EdgeTypes]_vars

\* C29 witness: with the button cached as pressed, 0.8 and then 0.7 have
\* each come out as a lone ButtonChanged
C29_Witness ==
    /\ Len(hyst) >= 3
    /\ hyst[Len(hyst) - 2] = <<80, "ButtonPressed">>
    /\ hyst[Len(hyst) - 1] = <<80, "ButtonChanged">>
    /\ hyst[Len(hyst)] = <<70, "ButtonChanged">>
    /\ StateIsPressed(GamepadAt(gamepads, 0).state, AXIS_LSTICKY)
    /\ ret = Ev(0, ret.time, "ButtonChanged", "RightTrigger2", 70, AXIS_LSTICKY)

\* the button events of a call that refer to a native code
ButtonSentFor(code) ==
    {i \in SentFor(code) : poll.sent[i].type \in {"ButtonPressed", "ButtonReleased"}}

\* exactly one button event for the code, ButtonPressed when now is true and
\* ButtonReleased when it is false, when was and now differ; else none
OneButtonEventIff(was, now, code) ==
    /\ Cardinality(ButtonSentFor(code)) = IF was # now THEN 1 ELSE 0
    /\ \A i \in ButtonSentFor(code) :
            poll.sent[i].type = IF now THEN "ButtonPressed" ELSE "ButtonReleased"

\* C30: in the diff of two raw readings and in the diff of two Gamepad
\* readings, a button whose boolean differs between old and new gets exactly
\* one event, ButtonPressed(code) when the new value is true and
\* ButtonReleased(code) when it is false, and a button whose boolean is
\* unchanged (or a flag outside the 14 mapped ones) gets no button event
C30_ButtonDiffBothPaths ==
    poll.state = "diffed" =>
        IF IsGamepad(poll.new)
        THEN /\ \A k \in 1..Len(WGI_TO_GILRS_BUTTON_MAP) :
                    LET c == WGI_TO_GILRS_BUTTON_MAP[k]
                    IN  OneButtonEventIff(c[1] \in poll.old.Buttons,
                                          c[1] \in poll.new.Buttons, c[2])
             /\ \A i \in 1..Len(poll.sent) :
                    poll.sent[i].type \in {"ButtonPressed", "ButtonReleased"} =>
                        \E k \in 1..Len(WGI_TO_GILRS_BUTTON_MAP) :
                            poll.sent[i].code = WGI_TO_GILRS_BUTTON_MAP[k][2]
        ELSE /\ \A i \in 1..Len(poll.new.buttons) :
                    OneButtonEventIff(poll.old.buttons[i], poll.new.buttons[i],
                                      EvCode("Button", i - 1))
             /\ \A i \in 1..Len(poll.sent) :
                    poll.sent[i].type \in {"ButtonPressed", "ButtonReleased"} =>
                        \E k \in 1..Len(poll.new.buttons) :
                            poll.sent[i].code = EvCode("Button", k - 1)

\* C30 witness: two Gamepad readings in which A went down, DPadUp went up and
\* the unmapped Paddle1 changed: ButtonReleased(BTN_DPAD_UP) and
\* ButtonPressed(BTN_SOUTH) are the events of the call
C30_Witness ==
    /\ poll.state = "diffed" /\ IsGamepad(poll.new)
    /\ poll.old.Buttons = {"DPadUp"} /\ poll.new.Buttons = {"A", "Paddle1"}
    /\ poll.old.LeftTrigger = poll.new.LeftTrigger
    /\ Len(poll.sent) = 2
    /\ poll.sent[1].type = "ButtonReleased" /\ poll.sent[1].code = EvCode("Button", 10)
    /\ poll.sent[2].type = "ButtonPressed" /\ poll.sent[2].code = BTN_SOUTH

\* the raw path of C30: the second button of a raw controller went up and the
\* first stayed down: ButtonReleased(Button 1) is the only event of the call
RawButtonDiffSeen ==
    /\ poll.state = "diffed" /\ ~IsGamepad(poll.new)
    /\ poll.old.buttons = <<TRUE, TRUE>> /\ poll.new.buttons = <<TRUE, FALSE>>
    /\ poll.old.axes = poll.new.axes
    /\ Len(poll.sent) = 1
    /\ poll.sent[1].type = "ButtonReleased" /\ poll.sent[1].code = EvCode("Button", 1)

\* C31 (as claimed): on every tick the pair of buffers used for a controller
\* holds, as old, the preceding reading of that very controller, also after
\* the enumeration has shifted
C31_DiffsOwnPreviousReading ==
    [][(PollStepped /\ ~loop'.failed)
          => loop'.readings[loop.idx].oldOf = loop.list[loop.idx]]_vars

\* C31 witness: controller 2 has been compared with a reading of controller
\* 1, and a button event has been sent for controller 2 out of it although
\* the hardware of controller 2 has the button as the thread first read it
C31_Witness ==
    /\ Len(loop.readings) >= 1
    /\ loop.readings[1].oldOf = 1 /\ loop.readings[1].newOf = 2
    /\ loop.readings[1].old.buttons # loop.readings[1].new.buttons
    /\ \E k \in 1..Len(rx) : rx[k].h = 2 /\ rx[k].type \in EdgeTypes

\* the AxisValueChanged events of a call, all but those of the y component
\* of a switch past the second, lie in the range of the AxisInfo of the code
AxisValuesWithinInfoButSwitchY ==
    poll.state = "diffed" =>
        \A i \in 1..Len(poll.sent) :
            LET e == poll.sent[i]
                ai == DeviceAxisInfo(IsGamepad(poll.new), e.code)
            IN  (e.type = "AxisValueChanged"
                    /\ ~(e.code.kind = "Switch" /\ e.code.index % 2 = 1 /\ e.code.index > 3))
                    => ai.some /\ ai.info.min <= e.val /\ e.val <= ai.info.max

\* C32 (as claimed): every AxisValueChanged of the producer carries a value
\* within [min, max] of the AxisInfo that axis_info returns for its code on
\* the device
C32_AxisValueWithinInfo ==
    poll.state = "diffed" =>
        \A i \in 1..Len(poll.sent) :
            LET e == poll.sent[i]
                ai == DeviceAxisInfo(IsGamepad(poll.new), e.code)
            IN  e.type = "AxisValueChanged"
                    => ai.info.min <= e.val /\ e.val <= ai.info.max

\* C32 witness: the third switch of a raw controller went from Center to Up
\* and the event of its y component carries 2, outside [-1, 1]
C32_Witness ==
    /\ poll.state = "diffed" /\ ~IsGamepad(poll.new)
    /\ poll.old.switches[3] = "Center" /\ poll.new.switches[3] = "Up"
    /\ \E k \in SentFor(EvCode("Switch", 5)) :
            poll.sent[k].type = "AxisValueChanged" /\ poll.sent[k].val = 2

\* the ends of the ranges are reached: a raw axis at 1.0 is sent as 32767 and
\* a trigger at 1.0 as i32::MAX
AxisRangeEndsSeen ==
    /\ poll.state = "diffed"
    /\ \E k \in 1..Len(poll.sent) :
            /\ poll.sent[k].type = "AxisValueChanged"
            /\ \/ ~IsGamepad(poll.new) /\ poll.sent[k].val = I16_MAX
               \/ IsGamepad(poll.new) /\ poll.sent[k].val = I32_MAX

\* the edge events among the events made of the raw axis values, in order
HystEdges == SelectSeq(HystTypes, LAMBDA t : t \in EdgeTypes)

\* C33: when the caller has committed every event returned, while the gamepad
\* was connected and before the next call, the edge events of a native code
\* mapped to a semantic button alternate, the first being a ButtonPressed,
\* for every sequence of raw axis values
C33_EdgesAlternate ==
    disciplined =>
        /\ \A i \in 1..(Len(HystEdges) - 1) : HystEdges[i] # HystEdges[i + 1]
        /\ HystEdges # << >> => HystEdges[1] = "ButtonPressed"

\* C33 witness: under a caller that committed every event the values 0.8,
\* 0.8, 0.6, 0.8 gave ButtonPressed, ButtonReleased, ButtonPressed
C33_Witness ==
    /\ disciplined /\ HystValues = <<80, 80, 60, 80>>
    /\ HystEdges = <<"ButtonPressed", "ButtonReleased", "ButtonPressed">>

\* without the commits the edges repeat: 0.8 twice gives ButtonPressed twice
EdgeRepeatsUncommitted ==
    /\ ~disciplined /\ HystValues = <<80, 80>>
    /\ HystTypes = <<"ButtonPressed", "ButtonPressed">>

\* the enumeration has not changed since construction: no controller was
\* added or removed
EnumerationStable == \A k \in 1..Len(rx) : rx[k].type \in EdgeTypes

\* the position of controller h in the enumeration
PositionOf(h) == CHOOSE i \in 1..Len(Enumerate(osPresent)) : Enumerate(osPresent)[i] = h

\* the edge events sent for the button of controller h, in order
EdgesOf(h) ==
    SelectSeq(rx, LAMBDA e : e.h = h /\ e.type \in EdgeTypes /\ e.code = EvCode("Button", 0))

\* the value of the button of controller h after the first k edge events sent
\* for it, replayed from the reading first taken of the controller
Replayed(h, k) ==
    IF k = 0 THEN loop.first[h].buttons[1] ELSE EdgesOf(h)[k].type = "ButtonPressed"

C35_AssertionHolds ==
    [][(PollStepped /\ ~loop'.failed
            /\ loop'.readings[loop.idx].old.time # loop'.readings[loop.idx].new.time)
          => loop'.readings[loop.idx].old.time < loop'.readings[loop.idx].new.time]_vars

\* C35 witness: the polling thread of a debug build has panicked in the
\* assertion, with every OS read having succeeded, on a pair whose old buffer
\* holds the later reading of another controller
C35_Witness ==
    /\ loop.debug /\ loop.state = "panicked" /\ ~loop.failed
    /\ \E i \in 1..Len(loop.readings) :
            /\ loop.readings[i].old.time > loop.readings[i].new.time
            /\ loop.readings[i].oldOf # loop.readings[i].newOf

\* the old reading is the earlier one on every call made for a pair that
\* holds the preceding reading of the controller itself
AssertionHoldsOnOwnReading ==
    [][(PollStepped /\ ~loop'.failed
            /\ loop'.readings[loop.idx].oldOf = loop'.readings[loop.idx].newOf
            /\ loop'.readings[loop.idx].old.time = loop.last[loop.list[loop.idx]]
            /\ loop'.readings[loop.idx].old.time # loop'.readings[loop.idx].new.time)
          => loop'.readings[loop.idx].old.time < loop'.readings[loop.idx].new.time]_vars

\* C36: the two buffers of every pair hold readings of one class, and the
\* polling loop never reaches the mismatch arm of send_events_for_differences
C36_BuffersOfOneClass ==
    /\ ~loop.mismatch
    /\ \A i \in 1..Len(loop.readings) :
            IsGamepad(loop.readings[i].old) = IsGamepad(loop.readings[i].new)

\* C36 witness: the pair of position 0, made as a Raw pair for the raw
\* controller 2, has been used for the Gamepad controller 1: both buffers
\* are Raw readings and a raw button event has been sent for controller 1
C36_Witness ==
    /\ Len(loop.readings) >= 1
    /\ loop.readings[1].oldOf = 2 /\ loop.readings[1].newOf = 1
    /\ ~IsGamepad(loop.readings[1].old) /\ ~IsGamepad(loop.readings[1].new)
    /\ \E k \in 1..Len(rx) : rx[k].h = 1 /\ rx[k].type \in EdgeTypes

\* the Gamepad pair of a position at which a raw controller turns up ends the
\* polling thread in the unwrap of Reading::update
GamepadPairOnRawControllerPanics ==
    /\ loop.state = "panicked" /\ loop.failed
    /\ loop.idx > 0 /\ Len(loop.readings) >= loop.idx
    /\ IsGamepad(loop.readings[loop.idx].old)
    /\ ~FromGameControllerOk(loop.list[loop.idx])

\* C37: the companion queue holds at most one event between calls, a
\* companion is pushed only onto an empty queue, and a raw event gives one
\* normalised event, or two of which the second is the queued one, all with
\* the id and the time of the raw event
C37_CompanionQueueAtMostOne ==
    /\ [](Len(events) <= 1)
    /\ [][Pulled =>
            /\ Len(events') > Len(events) => events = << >>
            /\ (events = << >> /\ rx # << >> /\ ~panicked') =>
                  LET raw == PlatformNextEvent(gamepads, Head(rx)).event
                  IN  /\ ret' # NoEvent /\ ret'.id = raw.id /\ ret'.time = raw.time
                      /\ Len(events') \in {0, 1}
                      /\ \A k \in 1..Len(events') :
                            events'[k].id = raw.id /\ events'[k].time = raw.time]_vars

\* C37 witness: two raw button events are in the channel behind the one just
\* normalised, and the queue holds the one companion of that one
C37_Witness ==
    /\ Len(rx) = 2 /\ rx[1].type \in EdgeTypes /\ rx[2].type \in EdgeTypes
    /\ ret.type \in EdgeTypes /\ Len(events) = 1
    /\ events[1] = Companion(ret)

\* C38: for every AxisValueChanged the producer sends, of a raw axis, of a
\* switch or of a Gamepad axis, axis_info of the receiving device, Gamepad
\* or not, returns Some for the code of the event
C38_AxisInfoIsSome ==
    poll.state = "diffed" =>
        \A i \in 1..Len(poll.sent) :
            poll.sent[i].type = "AxisValueChanged" =>
                \A isGamepad \in BOOLEAN :
                    DeviceAxisInfo(isGamepad, poll.sent[i].code).some

\* C38 witness: a call on two raw readings has sent the event of an axis and
\* the events of both components of a switch
C38_Witness ==
    /\ poll.state = "diffed" /\ ~IsGamepad(poll.new)
    /\ SentFor(EvCode("Axis", 0)) # {}
    /\ SentFor(EvCode("Switch", 0)) = {} /\ SentFor(EvCode("Switch", 1)) # {}
    /\ SentFor(EvCode("Switch", 3)) # {}

\* a call on two Gamepad readings has sent the events of the left trigger
\* and of the left thumbstick
GamepadAxesSent ==
    /\ poll.state = "diffed" /\ IsGamepad(poll.new)
    /\ SentFor(EvCode("Axis", 4)) # {} /\ SentFor(AXIS_LSTICKX) # {}

PairCreationSilent ==
    [][(PollStepped /\ ~loop'.failed /\ Len(loop.readings) < loop.idx)
          => /\ rx' = rx
             /\ loop'.readings[loop.idx].old = loop'.readings[loop.idx].new]_vars

====
